---- MODULE Spec2Model ----
(***************************************************************************)
(* Veldra block-template admission control: the pool-verifier's verdict    *)
(* path (services/pool-verifier) and the policy evaluator                  *)
(* (services/pool-verifier/src/policy.rs).                                 *)
(*                                                                         *)
(* Spec models one connection task of run_tcp_server: it reads a request   *)
(* line, fetches the mempool count, snapshots the live policy, decides     *)
(* with the inline rule chain of main.rs and writes the verdict line.      *)
(* The library evaluator evaluate_dynamic is modelled beside it as an      *)
(* operator; the TCP path does not call it.                                *)
(*                                                                         *)
(* Spec keeps the state the verdict depends on.  The log id, the verdict   *)
(* ring and the disk log (main.rs 304-330) are written after the verdict   *)
(* is fixed and are never read by the rule chain; Spec leaves them as      *)
(* main() built them.                                                      *)
(*                                                                         *)
(* SpecLog models the connection tasks of run_tcp_server side by side,     *)
(* with the shared log id counter, the verdict ring, the log file, the     *)
(* restart of the process and GET /stats.  SpecPolicy models the handlers  *)
(* of POST /policy/apply and POST /policy/apply_toml side by side.         *)
(***************************************************************************)
EXTENDS Integers, Sequences, FiniteSets, TLC

----------------------------------------------------------------------------
(* Bounds of the model *)

MaxHashLen == 1
MaxTx == 2
MaxFees == 3
MaxMempool == 2

\* request lines the verifier reads, over all connections and runs
MaxLines == 2

\* restarts of the verifier
MaxRestarts == 1

\* capacity of the verdict ring, scaled down from the 1000 of
\* const MAX_LOG: usize (main.rs 324)
MAX_LOG == 1

\* capacity of the template log, scaled down from the 500 of
\* const TEMPLATE_LOG_CAP: usize (template-manager main.rs 338)
TEMPLATE_LOG_CAP == 1

\* capacity of the channel of the streaming source, scaled down from the
\* 16 of mpsc::channel (template-manager main.rs 244)
MaxChannel == 1

\* the highest block height a connection handler of the bridge sends
MaxHeight == 2

(* Program constant *)
PROTOCOL_VERSION == 2

----------------------------------------------------------------------------
(* Input domains *)

\* Option<T>: None is the empty set, Some(x) the singleton
None == {}

Some(x) == {x}

unwrap(o) == CHOOSE x \in o : TRUE

\* wire versions a client may send: the compiled one and a foreign one
Versions == {PROTOCOL_VERSION, PROTOCOL_VERSION + 1}

\* prev_hash characters: "f" is an ASCII hex digit, "g" is not.  Both are
\* one byte, so String::len (bytes) is the number of characters.
HashChars == {"f", "g"}

\* prev_hash values of every length up to MaxHashLen: hex digits closed by
\* either character, since the rule asks all characters to be hex digits
HashStrings ==
    {[i \in 1..n |-> IF i = n THEN c ELSE "f"] :
        n \in 0..MaxHashLen, c \in HashChars}

CoinbaseValues == {0, 1}

TemplateIds == {1}

\* the legacy fields of a policy file, at the values of default_with_protocol
LegacyMinAvgFee == {0}

LegacyMidThresholds == {10}

LegacyHiThresholds == {50}

\* fee floors (lo, mid, hi) a policy file may carry
FloorChoices == {<<0, 1, 2>>, <<2, 1, 0>>}

MinTotalFeesChoices == {0, 2}

MaxTxCountChoices == {1, MaxTx}

\* TemplatePropose (rg-protocol/src/lib.rs)
TemplatePropose ==
    [version : Versions,
     id : TemplateIds,
     prev_hash : HashStrings,
     coinbase_value : CoinbaseValues,
     tx_count : 0..MaxTx,
     total_fees : 0..MaxFees]

\* PolicyConfig (policy.rs), floors = (min_avg_fee_lo, _mid, _hi);
\* unknown_mempool_as_high is the field that state.rs and init_policy.rs
\* assign.  max_weight_ratio (f64) is read by no rule and by no check of
\* validate and is left out.
PolicyConfig ==
    [protocol_version : Versions,
     required_prevhash_len : 0..MaxHashLen,
     min_total_fees : MinTotalFeesChoices,
     max_tx_count : {0} \cup MaxTxCountChoices,
     min_avg_fee : LegacyMinAvgFee,
     tx_count_mid_threshold : LegacyMidThresholds,
     tx_count_hi_threshold : LegacyHiThresholds,
     low_mempool_tx : 0..MaxMempool,
     high_mempool_tx : 0..MaxMempool,
     floors : FloorChoices,
     reject_empty_templates : BOOLEAN,
     reject_coinbase_zero : BOOLEAN,
     unknown_mempool_as_high : BOOLEAN]

min_avg_fee_lo(c) == c.floors[1]
min_avg_fee_mid(c) == c.floors[2]
min_avg_fee_hi(c) == c.floors[3]

----------------------------------------------------------------------------
(* policy.rs *)

\* PolicyConfig::validate
validate(c) ==
    /\ c.required_prevhash_len # 0
    /\ c.max_tx_count # 0
    /\ c.low_mempool_tx <= c.high_mempool_tx
    /\ c.tx_count_mid_threshold <= c.tx_count_hi_threshold

\* state.rs enforce_protocol
enforce_protocol(c) == c.protocol_version = PROTOCOL_VERSION

\* mempool_tx.unwrap_or(0)
unwrap_or(m, d) == IF m = None THEN d ELSE unwrap(m)

\* effective_min_avg_fee_dynamic with an inclusive Low bound (tx <= low)
effective_min_avg_fee_dynamic_le(c, mempool_tx) ==
    LET tx == unwrap_or(mempool_tx, 0) IN
    IF tx <= c.low_mempool_tx THEN <<min_avg_fee_lo(c), "low">>
    ELSE IF tx < c.high_mempool_tx THEN <<min_avg_fee_mid(c), "mid">>
    ELSE <<min_avg_fee_hi(c), "high">>

\* PolicyConfig::effective_min_avg_fee_dynamic: (floor, tier)
effective_min_avg_fee_dynamic(c, mempool_tx) ==
    LET tx == unwrap_or(mempool_tx, 0) IN
    IF tx < c.low_mempool_tx THEN <<min_avg_fee_lo(c), "low">>
    ELSE IF tx < c.high_mempool_tx THEN <<min_avg_fee_mid(c), "mid">>
    ELSE <<min_avg_fee_hi(c), "high">>

\* policy.rs evaluate_dynamic: (reason, tier, min_avg_fee_used)
evaluate_dynamic(template, c, mempool_tx) ==
    LET ft == effective_min_avg_fee_dynamic(c, mempool_tx)
        min_avg_fee_used == ft[1]
        tier == ft[2]
        avg == IF template.tx_count > 0
               THEN template.total_fees \div template.tx_count ELSE 0
        reason ==
            IF template.version # c.protocol_version
              THEN [tag |-> "UnsupportedVersion", got |-> template.version,
                    expected |-> c.protocol_version]
            ELSE IF Len(template.prev_hash) # c.required_prevhash_len
              THEN [tag |-> "PrevHashWrongLen", len |-> Len(template.prev_hash),
                    expected |-> c.required_prevhash_len]
            ELSE IF c.reject_empty_templates /\ template.tx_count = 0
              THEN [tag |-> "EmptyTemplate"]
            ELSE IF c.reject_coinbase_zero /\ template.coinbase_value = 0
                    /\ template.tx_count > 0
              THEN [tag |-> "CoinbaseZero"]
            ELSE IF template.tx_count > c.max_tx_count
              THEN [tag |-> "TooManyTransactions", count |-> template.tx_count,
                    max_allowed |-> c.max_tx_count]
            ELSE IF template.total_fees < c.min_total_fees
              THEN [tag |-> "TotalFeesTooLow", total |-> template.total_fees,
                    min_required |-> c.min_total_fees]
            ELSE IF min_avg_fee_used > 0 /\ template.tx_count > 0
                    /\ avg < min_avg_fee_used
              THEN [tag |-> "AverageFeeTooLow", avg |-> avg,
                    min_required |-> min_avg_fee_used]
            ELSE [tag |-> "Ok"]
    IN <<reason, tier, min_avg_fee_used>>

----------------------------------------------------------------------------
(* main.rs: the verdict path of one connection task *)

\* compute_avg_fee_sats_per_tx
compute_avg_fee_sats_per_tx(t) ==
    IF t.tx_count = 0 THEN 0 ELSE t.total_fees \div t.tx_count

\* the decision so far: `accepted` and `reason_enum` of the loop body
VerdictOk == [accepted |-> TRUE, reason_enum |-> [tag |-> "Ok"]]

Reject(reason) == [accepted |-> FALSE, reason_enum |-> reason]

\* 0) reject empty templates if policy says so
check_empty(d, c, p) ==
    IF d.accepted /\ c.reject_empty_templates /\ p.tx_count = 0
    THEN Reject([tag |-> "EmptyTemplate"]) ELSE d

\* 0.5) CoinbaseZero check
check_coinbase_zero(d, c, p) ==
    IF d.accepted /\ p.coinbase_value = 0
    THEN Reject([tag |-> "CoinbaseZero"]) ELSE d

\* 1) global min_total_fees
check_total_fees(d, c, p) ==
    IF d.accepted /\ p.total_fees < c.min_total_fees
    THEN Reject([tag |-> "TotalFeesTooLow", total |-> p.total_fees,
                 min_required |-> c.min_total_fees])
    ELSE d

\* 2) max tx count
check_tx_count(d, c, p) ==
    IF d.accepted /\ p.tx_count > c.max_tx_count
    THEN Reject([tag |-> "TooManyTransactions", count |-> p.tx_count,
                 max_allowed |-> c.max_tx_count])
    ELSE d

\* 3) tiered fee floor
check_avg_fee(d, avg_fee, min_avg_fee_used) ==
    IF d.accepted /\ avg_fee < min_avg_fee_used
    THEN Reject([tag |-> "AverageFeeTooLow", avg |-> avg_fee,
                 min_required |-> min_avg_fee_used])
    ELSE d

\* rule_chain with the coinbase-zero check moved before the empty check
rule_chain_coinbase_first(c, p, avg_fee, min_avg_fee_used) ==
    LET d0 == VerdictOk
        d1 == check_coinbase_zero(d0, c, p)
        d2 == check_empty(d1, c, p)
        d3 == check_total_fees(d2, c, p)
        d4 == check_tx_count(d3, c, p)
        d5 == check_avg_fee(d4, avg_fee, min_avg_fee_used)
    IN d5

\* the rule chain of the loop body, in program order
rule_chain(c, p, avg_fee, min_avg_fee_used) ==
    LET d0 == VerdictOk
        d1 == check_empty(d0, c, p)
        d2 == check_coinbase_zero(d1, c, p)
        d3 == check_total_fees(d2, c, p)
        d4 == check_tx_count(d3, c, p)
        d5 == check_avg_fee(d4, avg_fee, min_avg_fee_used)
    IN d5

\* reason_str: None for Ok, else the Debug rendering of the reason, which
\* shows the variant and every payload field
reason_str(reason_enum) ==
    IF reason_enum.tag = "Ok" THEN None ELSE Some(reason_enum)

\* one decision: tier and floor, average fee and rule chain; the result
\* holds the fields of the TemplateVerdict sent (version, id, accepted,
\* reason) and the floor, tier and average fee logged with it
decide(c, p, m) ==
    LET ft == effective_min_avg_fee_dynamic(c, m)
        min_avg_fee_used == ft[1]
        fee_tier == ft[2]
        avg_fee == compute_avg_fee_sats_per_tx(p)
        d == rule_chain(c, p, avg_fee, min_avg_fee_used)
    IN [version |-> PROTOCOL_VERSION,
        id |-> p.id,
        accepted |-> d.accepted,
        reason |-> reason_str(d.reason_enum),
        min_avg_fee_used |-> min_avg_fee_used,
        fee_tier |-> fee_tier,
        avg_fee_sats_per_tx |-> avg_fee]

----------------------------------------------------------------------------
(* main.rs: log ids, the verdict ring and the persistent log *)

\* a LoggedVerdict that records every decision as accepted
LoggedVerdict_accepted(log_id, p, v) ==
    [log_id |-> log_id,
     template_id |-> p.id,
     total_fees |-> p.total_fees,
     tx_count |-> p.tx_count,
     accepted |-> TRUE,
     reason |-> v.reason,
     min_avg_fee_used |-> v.min_avg_fee_used,
     fee_tier |-> v.fee_tier,
     avg_fee_sats_per_tx |-> v.avg_fee_sats_per_tx]

\* LoggedVerdict built for one decision (main.rs 306-319); height and
\* timestamp are copied from the request and the wall clock, are read by
\* nothing below and are left out
LoggedVerdict(log_id, p, v) ==
    [log_id |-> log_id,
     template_id |-> p.id,
     total_fees |-> p.total_fees,
     tx_count |-> p.tx_count,
     accepted |-> v.accepted,
     reason |-> v.reason,
     min_avg_fee_used |-> v.min_avg_fee_used,
     fee_tier |-> v.fee_tier,
     avg_fee_sats_per_tx |-> v.avg_fee_sats_per_tx]

\* a TemplateVerdict that does not echo the request id
TemplateVerdict_noid(v) ==
    [version |-> v.version, id |-> 0, accepted |-> v.accepted,
     reason |-> v.reason]

\* TemplateVerdict sent to the client (main.rs 297-302)
TemplateVerdict(v) ==
    [version |-> v.version, id |-> v.id, accepted |-> v.accepted,
     reason |-> v.reason]

\* a line of a byte stream, as read_line and lines() see it: utf8 tells
\* whether its bytes are UTF-8 (an Err(InvalidData) of the reader when
\* not), json is Some(value) when the text parses as the JSON value
\* expected and None when it does not
Text(json) == [utf8 |-> TRUE, json |-> json]

NotUtf8 == [utf8 |-> FALSE, json |-> None]

\* reader.lines().map_while(Result::ok): the lines before the first one
\* that is not UTF-8
RECURSIVE map_while_ok(_)
map_while_ok(lines) ==
    IF lines = <<>> \/ ~Head(lines).utf8 THEN <<>>
    ELSE <<Head(lines)>> \o map_while_ok(Tail(lines))

\* max_id after the loop of load_verdict_log over the first n lines read
RECURSIVE max_id(_, _)
max_id(lines, n) ==
    IF n = 0 THEN 0
    ELSE LET rest == max_id(lines, n - 1) IN
         IF lines[n].json # None /\ unwrap(lines[n].json).log_id > rest
         THEN unwrap(lines[n].json).log_id
         ELSE rest

\* load_verdict_log: the lines are read up to the first that is not UTF-8,
\* every one of them that parses as a LoggedVerdict is pushed, in file
\* order, and the counter starts at max_id + 1
load_verdict_log(lines) ==
    LET read == map_while_ok(lines)
        parsed == SelectSeq(read, LAMBDA l : l.json # None)
    IN [list |-> [i \in 1..Len(parsed) |-> unwrap(parsed[i].json)],
        counter |-> max_id(read, Len(read)) + 1]

\* a push that keeps the oldest entries and drops the new one when full
push_logged_keep_oldest(guard, logged, max_log) ==
    IF Len(guard) >= max_log THEN guard ELSE Append(guard, logged)

\* guard.push(logged) and the trim that follows it (main.rs 321-328)
push_logged(guard, logged, max_log) ==
    LET pushed == Append(guard, logged)
    IN IF Len(pushed) > max_log THEN Tail(pushed) ELSE pushed

\* the file after append_verdict_to_disk: the line is appended, or nothing
\* is (open or write failed), or a line that does not parse is left (a
\* short write, or the pieces of two concurrent writeln! interleaved)
append_verdict_to_disk(lines, logged) ==
    {Append(lines, Text(Some(logged))), lines, Append(lines, Text(None))}

----------------------------------------------------------------------------
(* template-manager: fingerprints, ids and the template sources *)

\* the range of DefaultHasher::finish, a u64, scaled down to 16 bits
HashModulus == 65536

\* DefaultHasher::new(): SipHash with the fixed keys (0, 0), the same in
\* every process; the model keeps its one property that matters here, a
\* deterministic function of the sequence of writes that depends on their
\* order
DefaultHasher_new == 0

\* Hasher::write of one value
hash_write(h, x) == (h * 31 + x + 1) % HashModulus

\* the bytes of the characters of the model's strings
CharCode(ch) == IF ch = "f" THEN 102 ELSE 103

\* <String as Hash>::hash: the bytes, then 0xff
RECURSIVE hash_str(_, _)
hash_str(h, str) ==
    IF str = <<>> THEN hash_write(h, 255)
    ELSE hash_str(hash_write(h, CharCode(Head(str))), Tail(str))

\* the position of the smallest element of a non-empty sequence
MinIndex(v) ==
    CHOOSE i \in 1..Len(v) : \A j \in 1..Len(v) : v[i] <= v[j]

\* v without its element at position i
RemoveAt(v, i) == SubSeq(v, 1, i - 1) \o SubSeq(v, i + 1, Len(v))

\* Vec::sort; transaction ids are numbered and compare as their strings do
RECURSIVE sort(_)
sort(v) ==
    IF v = <<>> THEN <<>>
    ELSE <<v[MinIndex(v)]>> \o sort(RemoveAt(v, MinIndex(v)))

\* for t in v { t.hash(&mut h) }
RECURSIVE hash_each(_, _)
hash_each(h, v) ==
    IF v = <<>> THEN h ELSE hash_each(hash_write(h, Head(v)), Tail(v))

\* hash_txids that hashes the ids in the order of the reply
hash_txids_unsorted(txids) == hash_each(DefaultHasher_new, txids)

\* hash_txids: sort a copy, hash each id, finish
hash_txids(txids) == hash_each(DefaultHasher_new, sort(txids))

\* stable_template_id: the five fields written to a fresh DefaultHasher
stable_template_id(fp) ==
    hash_write(
      hash_write(
        hash_write(
          hash_str(hash_write(DefaultHasher_new, fp.height), fp.prev_hash),
          fp.tx_count),
        fp.total_fees),
      fp.txids_hash)

\* A u64 amount of sats that may exceed the largest integer of the model
\* is held as two limbs, its value being hi * Limb + lo with lo < Limb.
Limb == 65536

\* the u64 of an integer of the model
sats(n) == [hi |-> n \div Limb, lo |-> n % Limb]

\* a + b on u64; no sum of the model comes near 2^64
add_sats(a, b) ==
    [hi |-> a.hi + b.hi + ((a.lo + b.lo) \div Limb),
     lo |-> (a.lo + b.lo) % Limb]

\* a * m on u64 for a small factor m
mul_sats(a, m) ==
    [hi |-> a.hi * m + ((a.lo * m) \div Limb), lo |-> (a.lo * m) % Limb]

\* a >> k on u64 for k below the width of a limb: the low k bits of hi
\* move to the top of lo
shr_bits(a, k) ==
    [hi |-> a.hi \div (2 ^ k),
     lo |-> (a.lo \div (2 ^ k)) + (a.hi % (2 ^ k)) * (Limb \div (2 ^ k))]

\* a >> k on u64, 0 <= k < 64: whole limbs first, then the bits left
RECURSIVE shr(_, _)
shr(a, k) ==
    IF k >= 16 THEN shr([hi |-> a.hi \div Limb, lo |-> a.hi % Limb], k - 16)
    ELSE shr_bits(a, k)

\* a <= b on u64
le_sats(a, b) == a.hi < b.hi \/ (a.hi = b.hi /\ a.lo <= b.lo)

\* block_subsidy_sats without the early return: the shift amount of a u64
\* shift taken modulo 64
block_subsidy_sats_unguarded(height) ==
    LET halvings == height \div 210000 IN
    shr(mul_sats(sats(100000000), 50), halvings % 64)

\* block_subsidy_sats: (50u64 * 100_000_000u64) >> halvings, 0 from 64
\* halvings on
block_subsidy_sats(height) ==
    LET halvings == height \div 210000 IN
    IF halvings >= 64 THEN sats(0)
    ELSE shr(mul_sats(sats(100000000), 50), halvings)

\* tpl.transactions.iter().map(|tx| tx.fee.to_sat()).sum()
RECURSIVE sum_fees(_)
sum_fees(txs) == IF txs = <<>> THEN 0 ELSE Head(txs).fee + sum_fees(Tail(txs))

\* the transaction ids of a reply, in its order
txids_of(txs) == [i \in 1..Len(txs) |-> txs[i].txid]

\* the TemplateFingerprint next_template computes from a reply of
\* getblocktemplate
fingerprint(tpl) ==
    [height |-> tpl.height,
     prev_hash |-> tpl.previous_block_hash,
     tx_count |-> Len(tpl.transactions),
     total_fees |-> sum_fees(tpl.transactions),
     txids_hash |-> hash_txids(txids_of(tpl.transactions))]

\* the TemplatePropose next_template builds from a reply; observed_weight
\* is None and created_at_unix_ms the clock, neither is read again
polled_template(tpl) ==
    LET fp == fingerprint(tpl) IN
    [version |-> PROTOCOL_VERSION,
     id |-> stable_template_id(fp),
     block_height |-> tpl.height,
     prev_hash |-> tpl.previous_block_hash,
     coinbase_value |-> IF tpl.coinbase_value = 0
                        THEN add_sats(block_subsidy_sats(tpl.height),
                                      sats(fp.total_fees))
                        ELSE sats(tpl.coinbase_value),
     tx_count |-> fp.tx_count,
     total_fees |-> fp.total_fees]

\* next_template, a failed call (Ok(Err) or a join error) after attempts
\* failures: count it, give up at three, else sleep and call again
rpc_failed(src, attempts) ==
    IF attempts + 1 >= 3
    THEN [source |-> [src EXCEPT !.had_rpc_error = TRUE],
          attempts |-> attempts + 1, give_up |-> TRUE]
    ELSE [source |-> src, attempts |-> attempts + 1, give_up |-> FALSE]

\* next_template that leaves had_rpc_error set after a reply
rpc_replied_sticky(src, tpl) ==
    LET fp == fingerprint(tpl) IN
    IF src.last_fp = Some(fp)
    THEN [source |-> src, result |-> None, recovered |-> src.had_rpc_error]
    ELSE [source |-> [src EXCEPT !.last_fp = Some(fp)],
          result |-> Some(polled_template(tpl)),
          recovered |-> src.had_rpc_error]

\* next_template from the reply on: log the recovery and clear
\* had_rpc_error, compute the fingerprint, return None when it is the last
\* one, else store it and return the template
rpc_replied(src, tpl) ==
    LET fp == fingerprint(tpl)
        cleared == [src EXCEPT !.had_rpc_error = FALSE]
    IN IF src.last_fp = Some(fp)
       THEN [source |-> cleared, result |-> None,
             recovered |-> src.had_rpc_error]
       ELSE [source |-> [cleared EXCEPT !.last_fp = Some(fp)],
             result |-> Some(polled_template(tpl)),
             recovered |-> src.had_rpc_error]

\* replies of getmempoolinfo; size is the field the snapshot's tx_count
\* is taken from
MempoolInfos == {[size |-> 1], [size |-> 2]}

\* what one call of get_mempool_info in spawn_blocking gives: None for an
\* RPC error or a join error, Some(info) for a reply
MempoolResults == {None} \cup {Some(info) : info \in MempoolInfos}

\* what the node would answer to three calls in a row
MempoolCalls == [1..3 -> MempoolResults]

\* the loop of fetch_mempool_info_with_retries after attempts failures,
\* results being the answers to the calls still to make
RECURSIVE mempool_retry_loop(_, _, _, _)
mempool_retry_loop(results, attempts, had_rpc_error, limit) ==
    IF Head(results) # None
    THEN [info |-> Head(results), calls |-> attempts + 1,
          mempool_had_rpc_error |-> FALSE, recovered |-> had_rpc_error]
    ELSE IF attempts + 1 >= limit
    THEN [info |-> None, calls |-> attempts + 1,
          mempool_had_rpc_error |-> TRUE, recovered |-> FALSE]
    ELSE mempool_retry_loop(Tail(results), attempts + 1, had_rpc_error, limit)

\* a fetch that gives up at the first failed call
fetch_mempool_info_once(results, had_rpc_error) ==
    mempool_retry_loop(results, 0, had_rpc_error, 1)

\* fetch_mempool_info_with_retries: call until a reply, give up at the
\* third failure, sleeping 200 ms between calls
fetch_mempool_info_with_retries(results, had_rpc_error) ==
    mempool_retry_loop(results, 0, had_rpc_error, 3)

\* the MempoolStats run_manager_loop builds from a reply (bytes, usage,
\* max, min_relay_fee and the timestamp left out)
MempoolStats(info) == [loaded_from |-> "bitcoind", tx_count |-> info.size]

\* the slot after the if let Some(info) of run_manager_loop
publish_snapshot(slot, info) ==
    IF info = None THEN slot ELSE Some(MempoolStats(unwrap(info)))

----------------------------------------------------------------------------
(* State *)

VARIABLES
    policy,            \* AppState.policy: the active PolicyConfig
    mempool_url,       \* whether VELDRA_MEMPOOL_URL is set
    pc,                \* position of the connection task
    propose,           \* the parsed request of the current iteration
    mempool_tx_count,  \* result of the mempool fetch of the current iteration
    cfg,               \* the policy snapshot of the current iteration
    verdict            \* the decision of the current iteration

\* propose, cfg and verdict are None while the loop body has no such local,
\* and Some(value) while it has

vars == <<policy, mempool_url, pc, propose, mempool_tx_count, cfg, verdict>>

\* the state shared by the connection tasks and the HTTP handlers
VARIABLES
    verdict_log,       \* VerdictLog: the Vec behind the mutex
    log_id_counter,    \* LogIdCounter: the AtomicU64
    disk,              \* the lines of data/verdicts.log
    conn,              \* the connection tasks of run_tcp_server
    run                \* history of the current run of the process

logvars == <<verdict_log, log_id_counter, disk, conn, run>>

\* the rest of the policy record and the HTTP handlers that replace it
VARIABLES
    toml_text,         \* PolicyHolder.toml_text
    http,              \* the handlers of /policy/apply and /policy/apply_toml
    start              \* the policy record before the requests in flight

httpvars == <<toml_text, http, start>>

\* the std::sync::RwLock around the policy record
VARIABLES
    policy_guards      \* the guards that are out: which task holds which

\* the startup of the verifier process
VARIABLES
    boot               \* main() up to the spawn of the servers

\* the template-manager process and the bridge it may read from
VARIABLES
    source,            \* the TemplateSource of run_manager_loop
    manager,           \* run_manager_loop: its position and its locals
    template_log,      \* TemplateLog: the Vec behind the RwLock
    mempool_log,       \* MempoolLog: the slot behind the RwLock
    bridge,            \* the reader task and the bridge's connection handler
    obs                \* what an observer of the producer has recorded

mgrvars == <<source, manager, template_log, mempool_log, bridge, obs>>

\* main() of the template-manager process and the two tasks it spawns
VARIABLES
    producer           \* position of main(), state of its tasks, exit status

\* the state outside the running verifier
outer == <<boot, mgrvars, producer, policy_guards>>

\* the state the verdict path of one connection does not read
rest == <<logvars, httpvars, outer>>

\* HTTP handler tasks that may run at the same time
Handlers == {1, 2}

\* a handler task that serves no request
IdleHandler ==
    [pc |-> "idle", route |-> "", req |-> None, body |-> None,
     base_cfg |-> None, status |-> None]

\* toml_text as load_initial_policy leaves it: the contents of the policy
\* file, a text that parses to the loaded config
FileText(c) == [kind |-> "file", config |-> c]

\* main(): the record load_initial_policy returned behind a fresh RwLock,
\* no request yet
HttpInit ==
    /\ policy_guards = {}
    /\ toml_text = FileText(policy)
    /\ http = [h \in Handlers |-> IdleHandler]
    /\ start = [config |-> policy, toml_text |-> toml_text]

\* connection tasks that may run at the same time
Conns == {1, 2}

\* a connection task that is not running
ClosedConn ==
    [pc |-> "closed", lines |-> <<>>, out |-> <<>>, propose |-> None,
     verdict |-> None, logged |-> None, pushes |-> 0, appends |-> 0]

\* main() on a host without data/verdicts.log: load_verdict_log returns an
\* empty list and counter 1, no connection is accepted yet.  run records
\* how many lines the file had at startup, the log ids allocated since, in
\* allocation order, the entries pushed to the ring since, in push order,
\* how often the process was restarted and how many request lines it read
\* over all its runs.
LogInit ==
    /\ disk = <<>>
    /\ verdict_log = load_verdict_log(<<>>).list
    /\ log_id_counter = load_verdict_log(<<>>).counter
    /\ conn = [c \in Conns |-> ClosedConn]
    /\ run = [loaded |-> 0, allocated |-> <<>>, pushed |-> <<>>,
              restarts |-> 0, lines |-> 0]

\* what main() finds at the path of the policy file: nothing that
\* read_to_string returns (no file, or bytes that are not UTF-8), text that
\* is no [policy] table, or a [policy] table
PolicyFiles == {NotUtf8, Text(None)} \cup {Text(Some(c)) : c \in PolicyConfig}

\* load_initial_policy: read_to_string, parse_policy_from_policy_table,
\* validate, enforce_protocol; None is Err, Some(holder) is Ok(holder)
load_initial_policy(file) ==
    IF ~file.utf8 THEN None
    ELSE IF file.json = None THEN None
    ELSE IF ~validate(unwrap(file.json)) THEN None
    ELSE IF ~enforce_protocol(unwrap(file.json)) THEN None
    ELSE Some([config |-> unwrap(file.json),
               toml_text |-> FileText(unwrap(file.json))])

\* main() of a process that found file and serves the policy record it
\* loaded from it
Serving(file) ==
    [phase |-> "serving", file |-> file, holder |-> load_initial_policy(file)]

\* the startup of the verifier that runs in the specifications of the
\* servers: the policy file held the active policy
BootDone == boot = Serving(Text(Some(policy)))

\* the source main() builds for a backend: BitcoindTemplateSource::new, or
\* StratumTemplateSource::from_config with its empty channel
NewSource(backend) ==
    [backend |-> backend, last_fp |-> None, had_rpc_error |-> FALSE,
     rx |-> <<>>]

\* run_manager_loop at the top of its loop, first iteration
NewManager ==
    [pc |-> "next", attempts |-> 0, reply |-> None, propose |-> None,
     outcome |-> "", mempool_had_rpc_error |-> FALSE]

\* the reader task before its first connect; height is the block height
\* the bridge's connection handler sends next, sending the template the
\* reader task has parsed and not yet put on the channel
BridgeDown == [link |-> "down", height |-> 0, sending |-> None]

\* an observer that has seen nothing: the last two dispatches, the RPC
\* calls of the next_template in progress, whether the last completed tick
\* gave up and whether the current tick logged the recovery message, and
\* the answers to the mempool calls of the tick that just ended
NewObs ==
    [dispatched |-> <<>>, calls |-> 0, gave_up |-> FALSE,
     recovered |-> FALSE, mempool_calls |-> <<>>]

\* main() of template-manager with backend "bitcoind" or "stratum", the
\* HTTP listener bound and the manager loop spawned
ManagerInit ==
    /\ \E backend \in {"bitcoind", "stratum"} : source = NewSource(backend)
    /\ manager = NewManager
    /\ template_log = <<>>
    /\ mempool_log = None
    /\ bridge = BridgeDown
    /\ obs = NewObs

\* main() of template-manager in its select!: the listener is bound, the
\* HTTP task and the manager task are spawned and none has ended
ProducerUp ==
    [pc |-> "select", listener |-> "bound", http_task |-> "running",
     manager_task |-> "running", exit |-> None]

\* a producer that polls and has not run an iteration
ManagerIdle ==
    ManagerInit /\ source.backend = "bitcoind" /\ producer = ProducerUp

\* the state outside the verifier, while the verifier runs
OuterInit == BootDone /\ ManagerIdle

\* policies load_initial_policy returns Ok for
LoadablePolicies == {c \in PolicyConfig : validate(c) /\ enforce_protocol(c)}

Init ==
    /\ policy \in LoadablePolicies
    /\ mempool_url \in BOOLEAN
    /\ pc = "accept"
    /\ propose = None
    /\ mempool_tx_count = None
    /\ cfg = None
    /\ verdict = None

\* listener.accept() and the spawn of the connection task
Accept ==
    /\ pc = "accept"
    /\ pc' = "read"
    /\ UNCHANGED <<policy, mempool_url, propose, mempool_tx_count, cfg, verdict>>

\* read_line returns Ok(0) or Err: the task ends
Eof ==
    /\ pc = "read"
    /\ pc' = "accept"
    /\ UNCHANGED <<policy, mempool_url, propose, mempool_tx_count, cfg, verdict>>

\* a line that does not parse as TemplatePropose: continue
ParseError ==
    /\ pc = "read"
    /\ UNCHANGED vars

\* a decision that takes the limits of the policy record as it was before
\* the requests in flight and everything else from the snapshot
Decide_mixed(m) ==
    /\ mempool_tx_count' = m
    /\ cfg' = Some(policy)
    /\ verdict' = Some(decide([policy EXCEPT
                                  !.min_total_fees = start.config.min_total_fees,
                                  !.max_tx_count = start.config.max_tx_count],
                              unwrap(propose'), m))
    /\ pc' = "write"

\* snapshot the policy, decide, and stop at the first await of the write
Decide(m) ==
    /\ mempool_tx_count' = m
    /\ cfg' = Some(policy)
    /\ verdict' = Some(decide(policy, unwrap(propose'), m))
    /\ pc' = "write"

\* a well-formed line, no mempool URL configured: no await before the write
ReadLineNoUrl ==
    /\ pc = "read"
    /\ ~mempool_url
    /\ \E p \in TemplatePropose :
         /\ propose' = Some(p)
         /\ Decide(None)
    /\ UNCHANGED <<policy, mempool_url>>

\* a well-formed line, mempool URL configured: await the fetch
ReadLineFetch ==
    /\ pc = "read"
    /\ mempool_url
    /\ \E p \in TemplatePropose : propose' = Some(p)
    /\ pc' = "fetch"
    /\ UNCHANGED <<policy, mempool_url, mempool_tx_count, cfg, verdict>>

\* fetch_mempool_tx_count returns Some(tx_count) or None (HTTP error,
\* non-success status, unparsable body), then the decision
MempoolReply ==
    /\ pc = "fetch"
    /\ \E m \in {None} \cup {Some(n) : n \in 0..MaxMempool} :
         /\ UNCHANGED propose
         /\ Decide(m)
    /\ UNCHANGED <<policy, mempool_url>>

\* the verdict line is written and flushed, the loop body ends
WriteVerdict ==
    /\ pc = "write"
    /\ pc' = "read"
    /\ propose' = None
    /\ mempool_tx_count' = None
    /\ cfg' = None
    /\ verdict' = None
    /\ UNCHANGED <<policy, mempool_url>>

\* write_all or flush fails: break, the task ends
WriteError ==
    /\ pc = "write"
    /\ pc' = "accept"
    /\ propose' = None
    /\ mempool_tx_count' = None
    /\ cfg' = None
    /\ verdict' = None
    /\ UNCHANGED <<policy, mempool_url>>

\* the steps of the verdict path; none of them touches the state in rest
Next ==
    \/ Accept /\ UNCHANGED rest
    \/ Eof /\ UNCHANGED rest
    \/ ParseError /\ UNCHANGED rest
    \/ ReadLineNoUrl /\ UNCHANGED rest
    \/ ReadLineFetch /\ UNCHANGED rest
    \/ MempoolReply /\ UNCHANGED rest
    \/ WriteVerdict /\ UNCHANGED rest
    \/ WriteError /\ UNCHANGED rest

\* the verdict path alone: the log state stays as main() built it
\* main() before the first connection, any loadable policy file
SpecInit == Init /\ LogInit /\ HttpInit /\ OuterInit

Spec == SpecInit /\ [][Next]_<<vars, rest>>

----------------------------------------------------------------------------
(* Connection tasks, the verdict ring, the persistent log and /stats *)

\* the policy file of the runs below: at most one transaction, floors 0, 1
\* and 2 sats per transaction for mempool counts below 1, below 2, and above
LogPolicy ==
    [protocol_version |-> PROTOCOL_VERSION,
     required_prevhash_len |-> 1,
     min_total_fees |-> 0,
     max_tx_count |-> 1,
     min_avg_fee |-> 0,
     tx_count_mid_threshold |-> 10,
     tx_count_hi_threshold |-> 50,
     low_mempool_tx |-> 1,
     high_mempool_tx |-> 2,
     floors |-> <<0, 1, 2>>,
     reject_empty_templates |-> FALSE,
     reject_coinbase_zero |-> FALSE,
     unknown_mempool_as_high |-> FALSE]

\* a request line that parses: one transaction paying 1 sat
LogTemplate(id) ==
    [version |-> PROTOCOL_VERSION, id |-> id, prev_hash |-> <<"f">>,
     coinbase_value |-> 1, tx_count |-> 1, total_fees |-> 1]

\* the requests of the runs below, each with the result of its mempool
\* fetch: template 1 while the fetch fails (tier Low, floor 0: accepted),
\* template 2 while the mempool holds 2 transactions (tier High, floor 2:
\* rejected)
LogRequests == {<<LogTemplate(1), None>>, <<LogTemplate(2), Some(2)>>}

\* AtomicU64::fetch_add that loses the addition
fetch_add_lost(counter, val) == counter

\* AtomicU64::fetch_add: the value stored; the value returned is the one
\* before.  The counter is a u64 and wraps at 2^64, which no run below
\* comes near.
fetch_add(counter, val) == counter + val

\* listener.accept() and tokio::spawn of the task of connection c
ConnAccept(c) ==
    /\ conn[c].pc = "closed"
    /\ conn' = [conn EXCEPT ![c] = [ClosedConn EXCEPT !.pc = "read"]]
    /\ UNCHANGED <<verdict_log, log_id_counter, disk, run>>

\* read_line returns Ok(0) or Err: break, the task ends
ConnEof(c) ==
    /\ conn[c].pc = "read"
    /\ conn' = [conn EXCEPT ![c] = ClosedConn]
    /\ UNCHANGED <<verdict_log, log_id_counter, disk, run>>

\* a line that does not parse as TemplatePropose: eprintln and continue
ParseErrorContinue(cn) == [cn EXCEPT !.lines = Append(@, Text(None))]

\* a line of text that is not a TemplatePropose
ConnParseError(c) ==
    /\ conn[c].pc = "read"
    /\ run.lines < MaxLines
    /\ conn' = [conn EXCEPT ![c] = ParseErrorContinue(conn[c])]
    /\ run' = [run EXCEPT !.lines = @ + 1]
    /\ UNCHANGED <<verdict_log, log_id_counter, disk>>

\* a line whose bytes are not UTF-8: read_line returns Err(InvalidData),
\* eprintln and break.  The task ends; the slot keeps what the connection
\* carried until it is accepted again.
ConnReadError(c) ==
    /\ conn[c].pc = "read"
    /\ run.lines < MaxLines
    /\ conn' = [conn EXCEPT ![c] =
           [@ EXCEPT !.pc = "closed", !.lines = Append(@, NotUtf8)]]
    /\ run' = [run EXCEPT !.lines = @ + 1]
    /\ UNCHANGED <<verdict_log, log_id_counter, disk>>

\* a line that parses: mempool fetch, policy snapshot, rule chain, verdict,
\* then fetch_add on the shared counter and the LoggedVerdict
ConnDecide(c) ==
    /\ conn[c].pc = "read"
    /\ run.lines < MaxLines
    /\ \E r \in LogRequests :
         LET p == r[1]
             m == r[2]
             v == decide(policy, p, m)
             log_id == log_id_counter
         IN /\ log_id_counter' = fetch_add(log_id_counter, 1)
            /\ conn' = [conn EXCEPT ![c] =
                   [@ EXCEPT !.pc = "push",
                             !.lines = Append(@, Text(Some(p))),
                             !.propose = Some(p),
                             !.verdict = Some(TemplateVerdict(v)),
                             !.logged = Some(LoggedVerdict(log_id, p, v)),
                             !.pushes = 0,
                             !.appends = 0]]
            /\ run' = [run EXCEPT !.allocated = Append(@, log_id),
                                  !.lines = @ + 1]
    /\ UNCHANGED <<verdict_log, disk>>

\* log.lock(): push the entry, drop the oldest when over MAX_LOG
ConnPush(c) ==
    /\ conn[c].pc = "push"
    /\ verdict_log' = push_logged(verdict_log, unwrap(conn[c].logged), MAX_LOG)
    /\ conn' = [conn EXCEPT ![c].pc = "disk", ![c].pushes = @ + 1]
    /\ run' = [run EXCEPT !.pushed = Append(@, unwrap(conn[c].logged))]
    /\ UNCHANGED <<log_id_counter, disk>>

\* append_verdict_to_disk(&logged): best effort, the result is ignored
ConnDisk(c) ==
    /\ conn[c].pc = "disk"
    /\ disk' \in append_verdict_to_disk(disk, unwrap(conn[c].logged))
    /\ conn' = [conn EXCEPT ![c].pc = "write", ![c].appends = @ + 1]
    /\ UNCHANGED <<verdict_log, log_id_counter, run>>

\* the verdict line is written and flushed; the loop body ends
ConnWrite(c) ==
    /\ conn[c].pc = "write"
    /\ conn' = [conn EXCEPT ![c] =
           [@ EXCEPT !.pc = "read",
                     !.out = Append(@, unwrap(conn[c].verdict)),
                     !.propose = None,
                     !.verdict = None,
                     !.logged = None]]
    /\ UNCHANGED <<verdict_log, log_id_counter, disk, run>>

\* write_all or flush fails: break, the task ends
ConnWriteError(c) ==
    /\ conn[c].pc = "write"
    /\ conn' = [conn EXCEPT ![c] = ClosedConn]
    /\ UNCHANGED <<verdict_log, log_id_counter, disk, run>>

\* the log file as the next run finds it: as it was left, or with one of
\* its lines damaged by the storage, the bytes of that line no longer UTF-8
FoundFiles(lines) ==
    {lines} \cup {[lines EXCEPT ![i] = NotUtf8] : i \in 1..Len(lines)}

\* the process ends at any point and main() runs again: every task is
\* gone, load_verdict_log rebuilds the ring and the counter from the file
Restart ==
    /\ run.restarts < MaxRestarts
    /\ \E file \in FoundFiles(disk) :
         /\ disk' = file
         /\ verdict_log' = load_verdict_log(file).list
         /\ log_id_counter' = load_verdict_log(file).counter
         /\ run' = [run EXCEPT !.loaded = Len(file), !.allocated = <<>>,
                               !.pushed = <<>>, !.restarts = @ + 1]
    /\ conn' = [c \in Conns |-> ClosedConn]

\* *map.entry(key).or_insert(0) += 1 on a BTreeMap
entry_add(map, key) ==
    [k \in DOMAIN map \cup {key} |->
        IF k = key THEN (IF key \in DOMAIN map THEN map[key] ELSE 0) + 1
        ELSE map[k]]

\* the key of by_reason: the reason string, "Ok" for an accepted entry
reason_key(v) == IF v.reason = None THEN [tag |-> "Ok"] ELSE unwrap(v.reason)

\* the loop of get_stats over the first n entries of the ring
RECURSIVE stats_loop(_, _)
stats_loop(log, n) ==
    IF n = 0
    THEN [total |-> 0, accepted |-> 0, rejected |-> 0,
          by_reason |-> [k \in {} |-> 0], by_tier |-> [k \in {} |-> 0]]
    ELSE LET s == stats_loop(log, n - 1)
             v == log[n]
         IN [total |-> s.total + 1,
             accepted |-> IF v.accepted THEN s.accepted + 1 ELSE s.accepted,
             rejected |-> IF v.accepted THEN s.rejected ELSE s.rejected + 1,
             by_reason |-> entry_add(s.by_reason, reason_key(v)),
             by_tier |-> entry_add(s.by_tier, v.fee_tier)]

\* get_stats that counts only accepted entries in total
get_stats_accepted(log) ==
    LET s == stats_loop(log, Len(log))
    IN [total |-> s.accepted, accepted |-> s.accepted, rejected |-> s.rejected,
        by_reason |-> s.by_reason, by_tier |-> s.by_tier,
        last |-> IF Len(log) = 0 THEN None ELSE Some(log[Len(log)])]

\* get_stats: the StatsResponse computed under the ring's lock
get_stats(log) ==
    LET s == stats_loop(log, Len(log))
    IN [total |-> s.total, accepted |-> s.accepted, rejected |-> s.rejected,
        by_reason |-> s.by_reason, by_tier |-> s.by_tier,
        last |-> IF Len(log) = 0 THEN None ELSE Some(log[Len(log)])]

\* the body GET /stats answers with in the current state
StatsResponse == get_stats(verdict_log)

\* GET /stats: the handler locks the ring, answers StatsResponse and
\* writes nothing
GetStats == UNCHANGED <<verdict_log, log_id_counter, disk, conn, run>>

LogNext ==
    \/ \E c \in Conns : ConnAccept(c) /\ UNCHANGED <<vars, httpvars, outer>>
    \/ \E c \in Conns : ConnEof(c) /\ UNCHANGED <<vars, httpvars, outer>>
    \/ \E c \in Conns : ConnParseError(c) /\ UNCHANGED <<vars, httpvars, outer>>
    \/ \E c \in Conns : ConnReadError(c) /\ UNCHANGED <<vars, httpvars, outer>>
    \/ \E c \in Conns : ConnDecide(c) /\ UNCHANGED <<vars, httpvars, outer>>
    \/ \E c \in Conns : ConnPush(c) /\ UNCHANGED <<vars, httpvars, outer>>
    \/ \E c \in Conns : ConnDisk(c) /\ UNCHANGED <<vars, httpvars, outer>>
    \/ \E c \in Conns : ConnWrite(c) /\ UNCHANGED <<vars, httpvars, outer>>
    \/ \E c \in Conns : ConnWriteError(c) /\ UNCHANGED <<vars, httpvars, outer>>
    \/ Restart /\ UNCHANGED <<vars, httpvars, outer>>
    \/ GetStats /\ UNCHANGED <<vars, httpvars, outer>>

\* main() with LogPolicy as the policy file and a mempool URL configured
SpecLogInit ==
    Init /\ policy = LogPolicy /\ mempool_url /\ LogInit /\ HttpInit /\ OuterInit

SpecLog == SpecLogInit /\ [][LogNext]_<<vars, rest>>

----------------------------------------------------------------------------
(* Properties of the connection tasks and the logs *)

\* the request lines of connection c that parsed, in the order read
Parsed(c) ==
    LET good == SelectSeq(conn[c].lines, LAMBDA l : l.json # None)
    IN [k \in 1..Len(good) |-> unwrap(good[k].json)]

\* connection c has decided a request and not yet written its verdict
InFlight(c) == conn[c].pc \in {"push", "disk", "write"}

\* C12: on one connection the k-th verdict line written answers the k-th
\* request line that parsed and carries its id, and a request is answered
\* only when every earlier request of the connection has been: at most the
\* last parsed request is without its verdict, and only while it is being
\* decided.
C12_StrictOrder ==
    \A c \in Conns :
        /\ Len(conn[c].out) + (IF InFlight(c) THEN 1 ELSE 0) = Len(Parsed(c))
        /\ \A k \in 1..Len(conn[c].out) :
              /\ conn[c].out[k].id = Parsed(c)[k].id
              /\ conn[c].out[k].version = PROTOCOL_VERSION
        /\ InFlight(c) =>
              unwrap(conn[c].verdict).id = Parsed(c)[Len(Parsed(c))].id

\* witness of C12: a connection has written two verdicts, for template 2
\* and then template 1, the order their requests were read in
C12_Witness ==
    \E c \in Conns :
        /\ Len(conn[c].out) = 2
        /\ conn[c].lines = <<Text(Some(LogTemplate(2))),
                             Text(Some(LogTemplate(1)))>>
        /\ conn[c].out[1].id = 2
        /\ conn[c].out[2].id = 1

C14_LogIdsUnique ==
    /\ \A i, j \in 1..Len(run.allocated) :
          i < j => run.allocated[i] < run.allocated[j]
    /\ \A i, j \in 1..Len(verdict_log) :
          i # j => verdict_log[i].log_id # verdict_log[j].log_id
    /\ \A c, d \in Conns :
          (c # d /\ InFlight(c) /\ InFlight(d))
          => unwrap(conn[c].logged).log_id # unwrap(conn[d].logged).log_id
    /\ \A c \in Conns : \A i \in 1..Len(verdict_log) :
          conn[c].pc = "push"
          => unwrap(conn[c].logged).log_id # verdict_log[i].log_id

\* witness of C14: two connection tasks have each allocated an id and
\* neither has pushed its entry yet
C14_Witness ==
    /\ conn[1].pc = "push"
    /\ conn[2].pc = "push"
    /\ Len(run.allocated) = 2
    /\ unwrap(conn[1].logged).log_id > unwrap(conn[2].logged).log_id

\* log ids of the lines earlier runs left in the log file
PersistedIds ==
    {unwrap(disk[i].json).log_id :
        i \in {j \in 1..run.loaded : disk[j].json # None}}

LastN(seq, n) ==
    IF Len(seq) <= n THEN seq ELSE SubSeq(seq, Len(seq) - n + 1, Len(seq))

WrittenIds ==
    LET written == SubSeq(disk, run.loaded + 1, Len(disk))
        good == SelectSeq(written, LAMBDA l : l.json # None)
    IN [k \in 1..Len(good) |-> unwrap(good[k].json).log_id]

\* C38: in every reachable state the entries of the in-memory verdict ring
\* and the lines of the persistent log written during one run are in
\* strictly increasing log_id order, also when several connections decide
\* concurrently.
C38_LogIdOrder ==
    /\ \A i, j \in 1..Len(verdict_log) :
          i < j => verdict_log[i].log_id < verdict_log[j].log_id
    /\ \A i, j \in 1..Len(WrittenIds) :
          i < j => WrittenIds[i] < WrittenIds[j]

\* the tier's floor under the policy the runs of SpecLog load
LoggedFloorOk(l) ==
    l.min_avg_fee_used =
        (IF l.fee_tier = "low" THEN min_avg_fee_lo(policy)
         ELSE IF l.fee_tier = "mid" THEN min_avg_fee_mid(policy)
         ELSE min_avg_fee_hi(policy))

\* the entry logged for a decision agrees with the verdict sent for it
LoggedMatches(l, v) ==
    /\ l.accepted = v.accepted
    /\ l.template_id = v.id
    /\ l.reason = v.reason
    /\ LoggedFloorOk(l)
    /\ (v.reason # None /\ unwrap(v.reason).tag = "AverageFeeTooLow")
         => unwrap(v.reason).min_required = l.min_avg_fee_used

\* C17: a decision pushes exactly one LoggedVerdict, as the newest entry of
\* the ring, and attempts exactly one append to the log file; the entry
\* agrees with the verdict in accepted, template id, tier and floor; the
\* append, also when it fails, leaves the ring as it is and is followed by
\* the write of the verdict line.
C17_OneLogEntryPerDecision ==
    [][\A c \in Conns :
         /\ (conn[c].pc = "push" /\ conn'[c].pc = "disk")
            => /\ verdict_log'[Len(verdict_log')] = unwrap(conn[c].logged)
               /\ \/ verdict_log' = Append(verdict_log, unwrap(conn[c].logged))
                  \/ verdict_log' = Tail(Append(verdict_log, unwrap(conn[c].logged)))
               /\ disk' = disk
         /\ (conn[c].pc = "disk" /\ conn'[c].pc \notin {"disk", "closed"})
            => /\ conn'[c].pc = "write"
               /\ verdict_log' = verdict_log
               /\ conn'[c].verdict = conn[c].verdict
               /\ \/ disk' = Append(disk, Text(conn[c].logged))
                  \/ disk' = Append(disk, Text(None))
                  \/ disk' = disk
         /\ (conn[c].pc = "write" /\ conn'[c].pc = "read")
            => /\ conn'[c].out = Append(conn[c].out, unwrap(conn[c].verdict))
               /\ conn[c].pushes = 1
               /\ conn[c].appends = 1
               /\ LoggedMatches(unwrap(conn[c].logged), unwrap(conn[c].verdict))
               /\ verdict_log' = verdict_log
               /\ disk' = disk]_<<vars, rest>>

\* witness of C17: the only decision so far was a rejection on the High
\* floor; its append to the log file failed, its entry is in the ring and
\* its verdict line has been written
C17_Witness ==
    \E c \in Conns :
        /\ run.allocated = <<1>>
        /\ disk = <<>>
        /\ Len(conn[c].out) = 1
        /\ ~conn[c].out[1].accepted
        /\ Len(verdict_log) = 1
        /\ verdict_log[1].template_id = conn[c].out[1].id
        /\ verdict_log[1].fee_tier = "high"

\* the sum of the counts of a map
RECURSIVE SumOf(_, _)
SumOf(map, keys) ==
    IF keys = {} THEN 0
    ELSE LET k == CHOOSE x \in keys : TRUE
         IN map[k] + SumOf(map, keys \ {k})

\* C18: whenever GET /stats is served, total = accepted + rejected = the
\* number of entries of the ring, by_tier and by_reason each sum to total,
\* and last is the newest entry of the ring, absent iff the ring is empty.
C18_StatsIdentity ==
    LET s == StatsResponse IN
    /\ s.total = s.accepted + s.rejected
    /\ s.total = Len(verdict_log)
    /\ SumOf(s.by_tier, DOMAIN s.by_tier) = s.total
    /\ SumOf(s.by_reason, DOMAIN s.by_reason) = s.total
    /\ (s.last = None) <=> (Len(verdict_log) = 0)
    /\ Len(verdict_log) > 0 => s.last = Some(verdict_log[Len(verdict_log)])

\* witness of C18: the ring holds an accepted Low entry and, newest, a
\* rejected High entry
C18_Witness ==
    /\ Len(verdict_log) = 2
    /\ verdict_log[1].accepted
    /\ ~verdict_log[2].accepted
    /\ StatsResponse.by_tier = [k \in {"low", "high"} |-> 1]
    /\ StatsResponse.accepted = 1
    /\ StatsResponse.last = Some(verdict_log[2])

----------------------------------------------------------------------------
(* Properties of the verdict path *)

\* the loop body has decided and is about to write the verdict line
Decided == pc = "write"

\* the locals of the loop body once it has decided
Propose == unwrap(propose)

Cfg == unwrap(cfg)

Verdict == unwrap(verdict)

HexDigits == {"0", "1", "2", "3", "4", "5", "6", "7", "8", "9",
              "a", "b", "c", "d", "e", "f", "A", "B", "C", "D", "E", "F"}

\* every character of s is an ASCII hex digit
IsHex(s) == \A i \in 1..Len(s) : s[i] \in HexDigits

\* rules 1-3: version, prev_hash length, prev_hash hex
PassesRules1to3(p, c) ==
    /\ p.version = c.protocol_version
    /\ Len(p.prev_hash) = c.required_prevhash_len
    /\ IsHex(p.prev_hash)

\* rule 4 and rule 5 do not reject
PassesRule4(p, c) == ~(c.reject_empty_templates /\ p.tx_count = 0)

PassesRule5(p, c) ==
    ~(c.reject_coinbase_zero /\ p.coinbase_value = 0 /\ p.tx_count > 0)

\* rules 6 and 7: transaction count and total fees
PassesRules6to7(p, c) ==
    /\ p.tx_count <= c.max_tx_count
    /\ p.total_fees >= c.min_total_fees

\* the truncating quotient of rule 8
Quotient(p) == p.total_fees \div p.tx_count

RejectedWith(tag) ==
    /\ ~Verdict.accepted
    /\ Verdict.reason # None
    /\ unwrap(Verdict.reason).tag = tag

\* C1: an accepted template violates no rejection rule: the version matches,
\* prev_hash has the required length and is hex, it is not an empty or
\* coinbase-zero template the policy rejects, the count and total fees are
\* within limits and the average fee meets the floor used.
C1_AcceptedPassesEveryRule ==
    (Decided /\ Verdict.accepted) =>
        /\ PassesRules1to3(Propose, Cfg)
        /\ PassesRule4(Propose, Cfg)
        /\ PassesRule5(Propose, Cfg)
        /\ PassesRules6to7(Propose, Cfg)
        /\ \/ Verdict.min_avg_fee_used = 0
           \/ Propose.tx_count = 0
           \/ Quotient(Propose) >= Verdict.min_avg_fee_used

\* C2: a template whose version differs from the policy's protocol_version
\* is rejected with the version-mismatch reason, whatever its other fields.
C2_VersionMismatchRejected ==
    (Decided /\ Propose.version # Cfg.protocol_version) =>
        /\ RejectedWith("UnsupportedVersion")
        /\ unwrap(Verdict.reason).got = Propose.version
        /\ unwrap(Verdict.reason).expected = Cfg.protocol_version

\* C3: a template with the right version and a prev_hash of the wrong length
\* is rejected with the prev-hash-length reason carrying both lengths.
C3_PrevHashLenRejected ==
    (/\ Decided
     /\ Propose.version = Cfg.protocol_version
     /\ Len(Propose.prev_hash) # Cfg.required_prevhash_len) =>
        /\ RejectedWith("PrevHashWrongLen")
        /\ unwrap(Verdict.reason).len = Len(Propose.prev_hash)
        /\ unwrap(Verdict.reason).expected = Cfg.required_prevhash_len

\* C4: a template with the right version and a prev_hash of the required
\* length holding a non-hex character is rejected with InvalidPrevHash.
C4_NonHexPrevHashRejected ==
    (/\ Decided
     /\ Propose.version = Cfg.protocol_version
     /\ Len(Propose.prev_hash) = Cfg.required_prevhash_len
     /\ ~IsHex(Propose.prev_hash)) =>
        RejectedWith("InvalidPrevHash")

\* the case of C5: reject_empty_templates set, an empty template with a zero
\* coinbase value that passes rules 1-3
C5_Case ==
    /\ Decided
    /\ Cfg.reject_empty_templates
    /\ Propose.tx_count = 0
    /\ Propose.coinbase_value = 0
    /\ PassesRules1to3(Propose, Cfg)

\* C5: with reject_empty_templates set, an empty template with a zero
\* coinbase value that passes rules 1-3 is rejected as an empty template and
\* not as coinbase-zero, whatever reject_coinbase_zero is; the TCP path and
\* evaluate_dynamic agree on it.
C5_EmptyBeforeCoinbaseZero ==
    C5_Case =>
        /\ ~Verdict.accepted
        /\ Verdict.reason = Some([tag |-> "EmptyTemplate"])
        /\ evaluate_dynamic(Propose, Cfg, mempool_tx_count)[1]
             = [tag |-> "EmptyTemplate"]

\* witness of C5: such a template was decided under a policy that also has
\* reject_coinbase_zero set, and was reported as empty
C5_Witness ==
    /\ C5_Case
    /\ Cfg.reject_coinbase_zero
    /\ RejectedWith("EmptyTemplate")

\* C6: a template is rejected as coinbase-zero only when reject_coinbase_zero
\* is set, coinbase_value = 0 and tx_count > 0.
C6_CoinbaseZeroOnlyWhenEnabled ==
    (Decided /\ ~Verdict.accepted /\ Verdict.reason = Some([tag |-> "CoinbaseZero"])) =>
        /\ Cfg.reject_coinbase_zero
        /\ Propose.coinbase_value = 0
        /\ Propose.tx_count > 0

\* C7: a template that passes rules 1-5 (and the coinbase check of the TCP
\* path) with both tx_count > max_tx_count and total_fees < min_total_fees
\* is rejected with the tx-count reason, not the total-fees reason.
C7_CountBeforeTotalFees ==
    (/\ Decided
     /\ PassesRules1to3(Propose, Cfg)
     /\ PassesRule4(Propose, Cfg)
     /\ PassesRule5(Propose, Cfg)
     /\ Propose.coinbase_value # 0
     /\ Propose.tx_count > Cfg.max_tx_count
     /\ Propose.total_fees < Cfg.min_total_fees) =>
        /\ RejectedWith("TooManyTransactions")
        /\ unwrap(Verdict.reason).count = Propose.tx_count
        /\ unwrap(Verdict.reason).max_allowed = Cfg.max_tx_count

\* C8: the average-fee rule fires only when the floor used is positive and
\* tx_count > 0: an empty template is never rejected for its average fee.
C8_AvgFeeRuleOnlyNonEmpty ==
    (Decided /\ ~Verdict.accepted /\ Verdict.reason # None
       /\ unwrap(Verdict.reason).tag = "AverageFeeTooLow") =>
        /\ Verdict.min_avg_fee_used > 0
        /\ Propose.tx_count > 0

\* C9: a template passing rules 1-7 with tx_count > 0 is accepted when the
\* truncating quotient total_fees / tx_count equals the floor F used, and
\* rejected with avg = quotient and min_required = F when it is F - 1.
C9_TruncatingStrictFloor ==
    (/\ Decided
     /\ PassesRules1to3(Propose, Cfg)
     /\ PassesRule4(Propose, Cfg)
     /\ PassesRule5(Propose, Cfg)
     /\ PassesRules6to7(Propose, Cfg)
     /\ Propose.tx_count > 0) =>
        /\ Verdict.avg_fee_sats_per_tx = Quotient(Propose)
        /\ (Quotient(Propose) = Verdict.min_avg_fee_used) => Verdict.accepted
        /\ (Quotient(Propose) = Verdict.min_avg_fee_used - 1) =>
             Verdict.reason = Some([tag |-> "AverageFeeTooLow",
                                    avg |-> Quotient(Propose),
                                    min_required |-> Verdict.min_avg_fee_used])

\* the floor of a tier
TierFloor(c, tier) ==
    IF tier = "low" THEN min_avg_fee_lo(c)
    ELSE IF tier = "mid" THEN min_avg_fee_mid(c)
    ELSE min_avg_fee_hi(c)

\* C10: when the mempool count is unknown the tier used is High if
\* unknown_mempool_as_high is set and Mid otherwise, never Low, and the floor
\* used is that tier's floor.
C10_UnknownMempoolTier ==
    (Decided /\ mempool_tx_count = None) =>
        /\ Verdict.fee_tier = IF Cfg.unknown_mempool_as_high THEN "high" ELSE "mid"
        /\ Verdict.min_avg_fee_used = TierFloor(Cfg, Verdict.fee_tier)

\* the tier the thresholds give a known mempool count
TierOfCount(c, m) ==
    IF m < c.low_mempool_tx THEN "low"
    ELSE IF m < c.high_mempool_tx THEN "mid"
    ELSE "high"

TierRank(tier) == IF tier = "low" THEN 0 ELSE IF tier = "mid" THEN 1 ELSE 2

\* C11: for a known mempool count m the tier is Low when m < low_mempool_tx,
\* Mid when low_mempool_tx <= m < high_mempool_tx and High otherwise; the
\* floor used (and the min_required of an average-fee rejection) is that
\* tier's floor, and a larger count never gives a lower tier.
C11_KnownMempoolTier ==
    (Decided /\ mempool_tx_count # None) =>
        LET m == unwrap(mempool_tx_count) IN
        /\ Verdict.fee_tier = TierOfCount(Cfg, m)
        /\ Verdict.min_avg_fee_used = TierFloor(Cfg, Verdict.fee_tier)
        /\ (Verdict.reason # None /\ unwrap(Verdict.reason).tag = "AverageFeeTooLow")
             => unwrap(Verdict.reason).min_required = TierFloor(Cfg, Verdict.fee_tier)
        /\ \A m2 \in m..MaxMempool :
             TierRank(effective_min_avg_fee_dynamic(Cfg, Some(m2))[2])
               >= TierRank(Verdict.fee_tier)

\* witness of C11: under one policy with 0 < low < high a count in the Mid
\* band was decided as Mid and rejected on the Mid floor
C11_Witness ==
    /\ Decided
    /\ mempool_tx_count # None
    /\ Cfg.low_mempool_tx > 0
    /\ Cfg.low_mempool_tx <= unwrap(mempool_tx_count)
    /\ unwrap(mempool_tx_count) < Cfg.high_mempool_tx
    /\ Verdict.fee_tier = "mid"
    /\ Verdict.reason = Some([tag |-> "AverageFeeTooLow", avg |-> 0,
                              min_required |-> min_avg_fee_mid(Cfg)])

----------------------------------------------------------------------------
(* Policy hot swap: POST /policy/apply and POST /policy/apply_toml *)

\* ApplyPolicyReq with no field set
EmptyReq ==
    [low_mempool_tx |-> None, high_mempool_tx |-> None,
     min_avg_fee_lo |-> None, min_avg_fee_mid |-> None,
     min_avg_fee_hi |-> None, min_total_fees |-> None,
     max_tx_count |-> None]

\* ApplyPolicyReq with every field set to its value in the policy c
FullReq(c) ==
    [low_mempool_tx |-> Some(c.low_mempool_tx),
     high_mempool_tx |-> Some(c.high_mempool_tx),
     min_avg_fee_lo |-> Some(min_avg_fee_lo(c)),
     min_avg_fee_mid |-> Some(min_avg_fee_mid(c)),
     min_avg_fee_hi |-> Some(min_avg_fee_hi(c)),
     min_total_fees |-> Some(c.min_total_fees),
     max_tx_count |-> Some(c.max_tx_count)]

\* the patches the handlers below receive: four that set one field, the
\* empty patch and the patch that spells out the policy file
ApplyRequests ==
    {[EmptyReq EXCEPT !.min_total_fees = Some(2)],
     [EmptyReq EXCEPT !.max_tx_count = Some(2)],
     [EmptyReq EXCEPT !.low_mempool_tx = Some(3)],
     [EmptyReq EXCEPT !.high_mempool_tx = Some(3)],
     EmptyReq,
     FullReq(LogPolicy)}

\* the bodies /policy/apply_toml receives: bytes that are not UTF-8, text
\* that is no [policy] table, a table that validates, one with
\* required_prevhash_len = 0 and one written for another protocol version
TomlBodies ==
    {NotUtf8,
     Text(None),
     Text(Some([LogPolicy EXCEPT !.reject_empty_templates = TRUE])),
     Text(Some([LogPolicy EXCEPT !.required_prevhash_len = 0])),
     Text(Some([LogPolicy EXCEPT !.protocol_version = PROTOCOL_VERSION + 1]))}

\* if let Some(v) = req.field { cfg.field = v; }
patched(field, old) == IF field = None THEN old ELSE unwrap(field)

\* the local copy of apply_policy after the seven assignments
compose(base_cfg, req) ==
    [base_cfg EXCEPT
        !.low_mempool_tx = patched(req.low_mempool_tx, @),
        !.high_mempool_tx = patched(req.high_mempool_tx, @),
        !.floors = <<patched(req.min_avg_fee_lo, @[1]),
                     patched(req.min_avg_fee_mid, @[2]),
                     patched(req.min_avg_fee_hi, @[3])>>,
        !.min_total_fees = patched(req.min_total_fees, @),
        !.max_tx_count = patched(req.max_tx_count, @)]

\* toml_text after apply_policy: "# updated via wizard" and the Debug
\* rendering of the config
WizardText(c) == [kind |-> "wizard", config |-> c]

\* toml_text after apply_policy_toml: the body, a text that parsed to c
BodyText(c) == [kind |-> "body", config |-> c]

\* apply_policy that commits before it validates
apply_policy_unchecked(holder, base_cfg, req) ==
    LET c == compose(base_cfg, req) IN
    [status |-> IF validate(c) THEN 200 ELSE 400,
     holder |-> [config |-> c, toml_text |-> WizardText(c)]]

\* apply_policy from the composition on: validate, then commit under the
\* write lock; the status and the policy record it leaves
apply_policy(holder, base_cfg, req) ==
    LET c == compose(base_cfg, req) IN
    IF ~validate(c)
    THEN [status |-> 400, holder |-> holder]
    ELSE [status |-> 200,
          holder |-> [config |-> c, toml_text |-> WizardText(c)]]

\* apply_policy_toml that commits every table that parses
apply_policy_toml_unchecked(holder, body) ==
    IF ~body.utf8 THEN [status |-> 400, holder |-> holder]
    ELSE IF body.json = None THEN [status |-> 400, holder |-> holder]
    ELSE [status |-> IF validate(unwrap(body.json)) THEN 200 ELSE 400,
          holder |-> [config |-> unwrap(body.json),
                      toml_text |-> BodyText(unwrap(body.json))]]

\* apply_policy_toml: from_utf8, toml::from_str, validate, commit
apply_policy_toml(holder, body) ==
    IF ~body.utf8 THEN [status |-> 400, holder |-> holder]
    ELSE IF body.json = None THEN [status |-> 400, holder |-> holder]
    ELSE IF ~validate(unwrap(body.json))
    THEN [status |-> 400, holder |-> holder]
    ELSE [status |-> 200,
          holder |-> [config |-> unwrap(body.json),
                      toml_text |-> BodyText(unwrap(body.json))]]

\* the policy record behind the RwLock
Holder == [config |-> policy, toml_text |-> toml_text]

\* apply_policy, first block: clone the config under the read lock
ApplyRead(h) ==
    /\ http[h].pc = "idle"
    /\ \E req \in ApplyRequests :
         http' = [http EXCEPT ![h] =
                    [IdleHandler EXCEPT !.pc = "read", !.route = "apply",
                                        !.req = Some(req),
                                        !.base_cfg = Some(policy)]]
    /\ UNCHANGED <<policy, toml_text, start>>

\* apply_policy, the rest: compose, validate, commit under the write lock
ApplyCommit(h) ==
    /\ http[h].pc = "read"
    /\ LET r == apply_policy(Holder, unwrap(http[h].base_cfg),
                             unwrap(http[h].req))
       IN /\ policy' = r.holder.config
          /\ toml_text' = r.holder.toml_text
          /\ http' = [http EXCEPT ![h].pc = "done",
                                  ![h].status = Some(r.status)]
    /\ UNCHANGED start

\* apply_policy_toml: no lock is held before the write lock, the handler
\* is one step
ApplyToml(h) ==
    /\ http[h].pc = "idle"
    /\ \E body \in TomlBodies :
         LET r == apply_policy_toml(Holder, body)
         IN /\ policy' = r.holder.config
            /\ toml_text' = r.holder.toml_text
            /\ http' = [http EXCEPT ![h] =
                           [IdleHandler EXCEPT !.pc = "done",
                                               !.route = "apply_toml",
                                               !.body = Some(body),
                                               !.status = Some(r.status)]]
    /\ UNCHANGED start

\* the responses are sent while no request is in flight; the next requests
\* start from the policy record of this state
HttpReturn ==
    /\ \E h \in Handlers : http[h].pc = "done"
    /\ \A h \in Handlers : http[h].pc # "read"
    /\ http' = [h \in Handlers |-> IdleHandler]
    /\ start' = Holder
    /\ UNCHANGED <<policy, toml_text>>

\* get_policy with min_avg_fee_mid and min_avg_fee_hi taken from each
\* other's field
get_policy_swapped(holder) ==
    LET c == holder.config IN
    [protocol_version |-> c.protocol_version,
     required_prevhash_len |-> c.required_prevhash_len,
     min_total_fees |-> c.min_total_fees,
     max_tx_count |-> c.max_tx_count,
     min_avg_fee |-> c.min_avg_fee,
     low_mempool_tx |-> c.low_mempool_tx,
     high_mempool_tx |-> c.high_mempool_tx,
     min_avg_fee_lo |-> min_avg_fee_lo(c),
     min_avg_fee_mid |-> min_avg_fee_hi(c),
     min_avg_fee_hi |-> min_avg_fee_mid(c),
     reject_empty_templates |-> c.reject_empty_templates]

\* get_policy: the JSON body of GET /policy, read under the read lock;
\* max_weight_ratio and the debug string are left out with the fields of
\* PolicyConfig they render
get_policy(holder) ==
    LET c == holder.config IN
    [protocol_version |-> c.protocol_version,
     required_prevhash_len |-> c.required_prevhash_len,
     min_total_fees |-> c.min_total_fees,
     max_tx_count |-> c.max_tx_count,
     min_avg_fee |-> c.min_avg_fee,
     low_mempool_tx |-> c.low_mempool_tx,
     high_mempool_tx |-> c.high_mempool_tx,
     min_avg_fee_lo |-> min_avg_fee_lo(c),
     min_avg_fee_mid |-> min_avg_fee_mid(c),
     min_avg_fee_hi |-> min_avg_fee_hi(c),
     reject_empty_templates |-> c.reject_empty_templates]

\* the answer to a GET /policy in this state
PolicyResponse == get_policy(Holder)

\* GET /policy writes nothing
GetPolicy == UNCHANGED <<policy, toml_text, http, start>>

\* the variables of the verdict path that the handlers do not write
connvars == <<mempool_url, pc, propose, mempool_tx_count, cfg, verdict>>

PolicyNext ==
    \/ \E h \in Handlers : ApplyRead(h) /\ UNCHANGED <<connvars, logvars, outer>>
    \/ \E h \in Handlers : ApplyCommit(h) /\ UNCHANGED <<connvars, logvars, outer>>
    \/ \E h \in Handlers : ApplyToml(h) /\ UNCHANGED <<connvars, logvars, outer>>
    \/ HttpReturn /\ UNCHANGED <<connvars, logvars, outer>>
    \/ GetPolicy /\ UNCHANGED <<connvars, logvars, outer>>

\* main() with LogPolicy as the policy file
SpecPolicyInit ==
    Init /\ policy = LogPolicy /\ ~mempool_url /\ LogInit /\ HttpInit /\ OuterInit

SpecPolicy == SpecPolicyInit /\ [][PolicyNext]_<<vars, rest>>

----------------------------------------------------------------------------
(* Properties of the policy hot swap *)

\* handler h ends its request in this step
Ends(h) == http[h].pc # "done" /\ http'[h].pc = "done"

\* the request handler h ends in this step gives no valid configuration:
\* the patched config fails validate, or the body is no text, no [policy]
\* table, or a table that fails validate
FailsToApply(h) ==
    IF http'[h].route = "apply"
    THEN ~validate(compose(unwrap(http[h].base_cfg), unwrap(http[h].req)))
    ELSE LET body == unwrap(http'[h].body) IN
         \/ ~body.utf8
         \/ body.json = None
         \/ ~validate(unwrap(body.json))

RECURSIVE Sequential(_, _)
Sequential(holder, H) ==
    IF H = {} THEN {holder}
    ELSE UNION {Sequential(apply_policy(holder, holder.config,
                                        unwrap(http[h].req)).holder,
                           H \ {h}) : h \in H}

\* C20: when the concurrent /policy/apply requests have all been answered,
\* the policy record is what applying the patches answered 200 one at a
\* time, in some order, to the record before them gives.
C20_Linearizable ==
    (\A h \in Handlers : http[h].pc = "done" /\ http[h].route = "apply")
    => Holder \in Sequential(start,
                             {h \in Handlers : http[h].status = Some(200)})

\* C22: in every reachable state, after startup and after any sequence of
\* successful and failed hot swaps through both endpoints, concurrent or
\* not, the active policy has low_mempool_tx <= high_mempool_tx,
\* required_prevhash_len >= 1 and max_tx_count >= 1.
C22_ActivePolicyValid ==
    /\ policy.low_mempool_tx <= policy.high_mempool_tx
    /\ policy.required_prevhash_len >= 1
    /\ policy.max_tx_count >= 1

\* witness of C22: two requests ran at the same time, one was answered 200
\* and one 400, and the active policy is a valid one that differs from the
\* policy file
C22_Witness ==
    /\ \E h \in Handlers : http[h].pc = "done" /\ http[h].status = Some(200)
    /\ \E h \in Handlers : http[h].pc = "done" /\ http[h].status = Some(400)
    /\ policy # LogPolicy
    /\ validate(policy)

\* C23: in every reachable state the active policy's protocol_version is
\* the compiled PROTOCOL_VERSION; a /policy/apply_toml body that carries
\* another protocol_version is rejected and leaves the policy as it was.
C23_ProtocolVersionKept == policy.protocol_version = PROTOCOL_VERSION

\* the fields of ApplyPolicyReq, which are fields of the body of GET /policy
PatchFields ==
    {"low_mempool_tx", "high_mempool_tx", "min_avg_fee_lo",
     "min_avg_fee_mid", "min_avg_fee_hi", "min_total_fees", "max_tx_count"}

NoOpPatch(req) == compose(policy, req) = policy

\* C26: a /policy/apply whose patch equals the current policy, or is empty,
\* leaves the policy record as it is, config and TOML text.
C26_NoOpPatchKeepsRecord ==
    [][\A h \in Handlers :
         (/\ Ends(h)
          /\ http'[h].route = "apply"
          /\ NoOpPatch(unwrap(http[h].req))
          /\ http[h].base_cfg = Some(policy))
         => (policy' = policy /\ toml_text' = toml_text)]_<<vars, rest>>

----------------------------------------------------------------------------
(* Startup of the verifier *)

\* main(): load_initial_policy(&policy_path).expect(..) panics on Err and
\* the process ends before a server is spawned; on Ok the record becomes
\* AppState.policy and the TCP and HTTP servers are spawned
Main ==
    /\ boot.phase = "start"
    /\ LET r == load_initial_policy(boot.file)
       IN boot' = IF r = None
                  THEN [boot EXCEPT !.phase = "panicked"]
                  ELSE [boot EXCEPT !.phase = "serving", !.holder = r]

StartNext ==
    Main /\ UNCHANGED <<vars, logvars, httpvars, mgrvars, producer, policy_guards>>

\* a process about to run main(), any policy file; the state of the
\* servers is the one they start from once main() has spawned them
SpecStartInit ==
    /\ Init /\ policy = LogPolicy /\ ~mempool_url /\ LogInit /\ HttpInit
    /\ \E file \in PolicyFiles :
         boot = [phase |-> "start", file |-> file, holder |-> None]
    /\ ManagerIdle

SpecStart == SpecStartInit /\ [][StartNext]_<<vars, rest>>

\* C24: when the policy file is missing, unparsable, fails validation or
\* carries a protocol_version other than the compiled one, startup does
\* not abort: the servers are started with a permissive policy that has
\* reject_empty_templates and reject_coinbase_zero off and min_total_fees 0.
C24_DegradedStartup ==
    (boot.phase # "start" /\ load_initial_policy(boot.file) = None)
    => /\ boot.phase = "serving"
       /\ boot.holder # None
       /\ ~unwrap(boot.holder).config.reject_empty_templates
       /\ ~unwrap(boot.holder).config.reject_coinbase_zero
       /\ unwrap(boot.holder).config.min_total_fees = 0

----------------------------------------------------------------------------
(* A connection task while the policy handlers run *)

\* the request lines of the runs below: well-formed templates of two
\* transactions, whose verdict under LogPolicy and under its patches
\* depends on max_tx_count, min_total_fees and the fee floors
SwapTemplates ==
    {p \in TemplatePropose :
        /\ p.version = PROTOCOL_VERSION
        /\ p.prev_hash = <<"f">>
        /\ p.coinbase_value = 1
        /\ p.tx_count = 2
        /\ p.total_fees \in {1, 3}}

\* the HTTP handler task of the runs below
SwapHandlers == {1}

\* the connection task of run_tcp_server and a handler of /policy/apply and
\* /policy/apply_toml on the multi-thread runtime: any interleaving of
\* their steps
SwapNext ==
    \/ Accept /\ UNCHANGED rest
    \/ Eof /\ UNCHANGED rest
    \/ ParseError /\ UNCHANGED rest
    \/ ReadLineNoUrl /\ propose' \in {Some(p) : p \in SwapTemplates}
                     /\ UNCHANGED rest
    \/ ReadLineFetch /\ propose' \in {Some(p) : p \in SwapTemplates}
                     /\ UNCHANGED rest
    \/ MempoolReply /\ UNCHANGED rest
    \/ WriteVerdict /\ UNCHANGED rest
    \/ WriteError /\ UNCHANGED rest
    \/ \E h \in SwapHandlers :
         ApplyRead(h) /\ UNCHANGED <<connvars, logvars, outer>>
    \/ \E h \in SwapHandlers :
         ApplyCommit(h) /\ UNCHANGED <<connvars, logvars, outer>>
    \/ \E h \in SwapHandlers :
         ApplyToml(h) /\ UNCHANGED <<connvars, logvars, outer>>
    \/ HttpReturn /\ UNCHANGED <<connvars, logvars, outer>>

\* main() with LogPolicy as the policy file, the mempool URL set or not
SpecSwapInit == Init /\ policy = LogPolicy /\ LogInit /\ HttpInit /\ OuterInit

SpecSwap == SpecSwapInit /\ [][SwapNext]_<<vars, rest>>

\* C21: every verdict is computed against one policy snapshot: at the
\* decision the snapshot is the policy that is active at that instant, all
\* fields of the verdict are those decide gives for that one value, and
\* snapshot and verdict stay as they are while the verdict waits to be
\* written, whatever the handlers commit meanwhile.
C21_OnePolicySnapshot ==
    [][/\ (pc # "write" /\ pc' = "write")
          => /\ cfg' = Some(policy)
             /\ verdict' = Some(decide(policy, unwrap(propose'),
                                       mempool_tx_count'))
       /\ (pc = "write" /\ pc' = "write")
          => /\ UNCHANGED <<cfg, verdict, propose, mempool_tx_count>>
             /\ verdict = Some(decide(unwrap(cfg), unwrap(propose),
                                      mempool_tx_count))]_<<vars, rest>>

\* witness of C21: a verdict waits to be written, its snapshot is a policy
\* a hot swap committed, and another hot swap has committed since the
\* snapshot was taken
C21_Witness ==
    /\ pc = "write"
    /\ cfg # Some(LogPolicy)
    /\ cfg # Some(policy)
    /\ verdict = Some(decide(unwrap(cfg), unwrap(propose), mempool_tx_count))
    /\ verdict # Some(decide(policy, unwrap(propose), mempool_tx_count))

----------------------------------------------------------------------------
(* template-manager: the manager loop, its sources and the bridge *)

\* transactions a reply of getblocktemplate lists: id and fee
Transactions == {[txid |-> 1, fee |-> 1], [txid |-> 2, fee |-> 2]}

\* replies of getblocktemplate: a height before the first halving and
\* one after 33 halvings, the two transactions in either order, a coinbase
\* value of zero or not
BlockTemplates ==
    [height : {1, 33 * 210000},
     previous_block_hash : {<<"f">>},
     transactions : {t \in Transactions \X Transactions : t[1] # t[2]},
     coinbase_value : {0, 50}]

\* BridgeConfig of sv2-bridge, its defaults scaled down
BridgeConfig == [start_height |-> 1, tx_count |-> 1, total_fees |-> 1]

\* the template handle_client of sv2-bridge sends at a height; its id
\* counts the templates of the connection from 1
bridge_template(height) ==
    [version |-> PROTOCOL_VERSION,
     id |-> height - BridgeConfig.start_height + 1,
     block_height |-> height,
     prev_hash |-> <<"f">>,
     coinbase_value |-> add_sats(block_subsidy_sats(height),
                                 sats(BridgeConfig.total_fees)),
     tx_count |-> BridgeConfig.tx_count,
     total_fees |-> BridgeConfig.total_fees]

\* results of timeout(connect_timeout, TcpStream::connect(..))
ConnectOutcomes == {"connected", "refused", "connect_timeout"}

\* results of timeout(verdict_timeout, send_and_receive(..)): Ok(()), an
\* error or timeout of a write or the flush, a timeout of read_line, EOF
\* before a verdict, a line that is no TemplateVerdict, the outer timeout
ExchangeOutcomes ==
    {"verdict", "write_error", "read_timeout", "closed", "unparsable",
     "verdict_timeout"}

\* a manager loop whose failed dispatch returns the error
after_dispatch_bail(outcome) ==
    IF outcome \in {"connected", "verdict"} THEN "log" ELSE "exited"

\* run_manager_loop after the dispatch: every arm of the two matches only
\* prints and falls through to the template log
after_dispatch(outcome) == "log"

\* the LoggedTemplate pushed for a template (timestamp left out)
LoggedTemplate(p, backend) ==
    [id |-> p.id, height |-> p.block_height, total_fees |-> p.total_fees,
     backend |-> backend]

\* log.push and the drain of the entries over TEMPLATE_LOG_CAP
push_template(log, entry) ==
    LET pushed == Append(log, entry) IN
    IF Len(pushed) > TEMPLATE_LOG_CAP
    THEN SubSeq(pushed, Len(pushed) - TEMPLATE_LOG_CAP + 1, Len(pushed))
    ELSE pushed

\* the fingerprint fields of a streamed template: it lists no transaction
stream_fingerprint(p) ==
    [height |-> p.block_height, prev_hash |-> p.prev_hash,
     tx_count |-> p.tx_count, total_fees |-> p.total_fees,
     txids_hash |-> hash_txids(<<>>)]

\* the fingerprint of the template the manager is dispatching
DispatchFingerprint ==
    IF manager.reply # None THEN fingerprint(unwrap(manager.reply))
    ELSE stream_fingerprint(unwrap(manager.propose))

\* the observer's record of the last two dispatches, after one more
Observe(dispatched, entry) ==
    IF Len(dispatched) < 2 THEN Append(dispatched, entry)
    ELSE <<dispatched[2], entry>>

\* polling, top of the loop: next_template makes its first call
PollCall ==
    /\ source.backend = "bitcoind"
    /\ manager.pc = "next"
    /\ manager' = [manager EXCEPT !.pc = "rpc", !.attempts = 0,
                                  !.reply = None, !.propose = None,
                                  !.outcome = ""]
    /\ obs' = [obs EXCEPT !.calls = 1, !.recovered = FALSE,
                          !.mempool_calls = <<>>]
    /\ UNCHANGED <<source, template_log, mempool_log, bridge>>

\* the call fails: next_template gives up and returns Ok(None), or sleeps
\* 200 ms and calls again
RpcError ==
    /\ manager.pc = "rpc"
    /\ LET r == rpc_failed(source, manager.attempts) IN
       /\ source' = [source EXCEPT !.had_rpc_error = r.source.had_rpc_error]
       /\ manager' = [manager EXCEPT
                         !.attempts = IF r.give_up THEN 0 ELSE r.attempts,
                         !.pc = IF r.give_up THEN "mempool" ELSE "rpc"]
       /\ obs' = IF r.give_up THEN [obs EXCEPT !.gave_up = TRUE, !.calls = 0]
                 ELSE [obs EXCEPT !.calls = @ + 1]
    /\ UNCHANGED <<template_log, mempool_log, bridge>>

\* the call returns a block template: next_template returns it, or None
\* when its fingerprint is the last one
RpcReply ==
    /\ manager.pc = "rpc"
    /\ \E tpl \in BlockTemplates :
         LET r == rpc_replied(source, tpl) IN
         /\ source' = [source EXCEPT
                          !.had_rpc_error = r.source.had_rpc_error,
                          !.last_fp = r.source.last_fp]
         /\ manager' = [manager EXCEPT
                           !.attempts = 0,
                           !.reply = Some(tpl),
                           !.propose = r.result,
                           !.pc = IF r.result = None THEN "mempool"
                                  ELSE "connect"]
         /\ obs' = [obs EXCEPT !.gave_up = FALSE, !.calls = 0,
                               !.recovered = r.recovered]
    /\ UNCHANGED <<template_log, mempool_log, bridge>>

\* streaming, top of the loop: rx.recv() returns the next template of the
\* channel
StreamRecv ==
    /\ source.backend = "stratum"
    /\ manager.pc = "next"
    /\ source.rx # <<>>
    /\ source' = [source EXCEPT !.rx = Tail(@)]
    /\ manager' = [manager EXCEPT !.pc = "connect",
                                  !.propose = Some(Head(source.rx)),
                                  !.outcome = ""]
    /\ UNCHANGED <<template_log, mempool_log, bridge, obs>>

\* timeout(connect_timeout, TcpStream::connect(&verifier_addr))
Connect ==
    /\ manager.pc = "connect"
    /\ \E outcome \in ConnectOutcomes :
         manager' = [manager EXCEPT
                        !.outcome = outcome,
                        !.pc = IF outcome = "connected" THEN "exchange"
                               ELSE after_dispatch(outcome)]
    /\ UNCHANGED <<source, template_log, mempool_log, bridge, obs>>

\* timeout(verdict_timeout, send_and_receive(stream, &propose))
SendAndReceive ==
    /\ manager.pc = "exchange"
    /\ \E outcome \in ExchangeOutcomes :
         manager' = [manager EXCEPT !.outcome = outcome,
                                    !.pc = after_dispatch(outcome)]
    /\ UNCHANGED <<source, template_log, mempool_log, bridge, obs>>

\* store for /templates, end of the Ok(Some(propose)) arm
StoreTemplate ==
    /\ manager.pc = "log"
    /\ template_log' =
          push_template(template_log,
                        LoggedTemplate(unwrap(manager.propose),
                                       source.backend))
    /\ obs' = [obs EXCEPT !.dispatched =
                  Observe(@, [fp |-> DispatchFingerprint,
                              id |-> unwrap(manager.propose).id,
                              delivered |-> manager.outcome = "verdict",
                              old_run |-> FALSE])]
    /\ manager' = [manager EXCEPT
                      !.pc = IF source.backend = "bitcoind" THEN "mempool"
                             ELSE "next",
                      !.reply = None, !.propose = None, !.outcome = ""]
    /\ UNCHANGED <<source, mempool_log, bridge>>

\* the mempool snapshot of the polling backend, fetch_mempool_info_with_
\* retries: a reply within three attempts is published, three failures
\* leave the slot; then the sleep of poll_secs
MempoolSnapshot ==
    /\ manager.pc = "mempool"
    /\ \E results \in MempoolCalls :
         LET r == fetch_mempool_info_with_retries(
                     results, manager.mempool_had_rpc_error)
         IN /\ mempool_log' = publish_snapshot(mempool_log, r.info)
            /\ manager' = [manager EXCEPT
                              !.pc = "next",
                              !.reply = None,
                              !.mempool_had_rpc_error =
                                  r.mempool_had_rpc_error]
            /\ obs' = [obs EXCEPT
                          !.mempool_calls = SubSeq(results, 1, r.calls)]
    /\ UNCHANGED <<source, template_log, bridge>>

\* the reader task connects to the bridge, whose handle_client starts at
\* start_height
BridgeConnect ==
    /\ source.backend = "stratum"
    /\ bridge.link = "down"
    /\ bridge.sending = None
    /\ bridge' = [link |-> "up", height |-> BridgeConfig.start_height,
                  sending |-> None]
    /\ UNCHANGED <<source, manager, template_log, mempool_log, obs>>

\* handle_client writes its next template; read_line of the reader task
\* returns the line and serde_json parses it
BridgeSend ==
    /\ bridge.link = "up"
    /\ bridge.height <= MaxHeight
    /\ bridge.sending = None
    /\ bridge' = [bridge EXCEPT !.height = @ + 1,
                                !.sending = Some(bridge_template(bridge.height))]
    /\ UNCHANGED <<source, manager, template_log, mempool_log, obs>>

\* tx.send(tpl).await of the reader task: the future completes when the
\* channel of mpsc::channel(MaxChannel) has room, then the loop reads on
ReaderSend ==
    /\ bridge.sending # None
    /\ Len(source.rx) < MaxChannel
    /\ source' = [source EXCEPT !.rx = Append(@, unwrap(bridge.sending))]
    /\ bridge' = [bridge EXCEPT !.sending = None]
    /\ UNCHANGED <<manager, template_log, mempool_log, obs>>

\* the connection to the bridge ends (read error or EOF): the reader task
\* sleeps 3 s and connects again, once it is back at read_line
BridgeClose ==
    /\ bridge.link = "up"
    /\ bridge' = [bridge EXCEPT !.link = "down", !.height = 0]
    /\ UNCHANGED <<source, manager, template_log, mempool_log, obs>>

\* the producer process is stopped and started again with the same
\* configuration
ManagerRestart ==
    /\ obs.dispatched # <<>>
    /\ \A i \in 1..Len(obs.dispatched) : ~obs.dispatched[i].old_run
    /\ source' = NewSource(source.backend)
    /\ manager' = NewManager
    /\ template_log' = <<>>
    /\ mempool_log' = None
    /\ bridge' = BridgeDown
    /\ obs' = [NewObs EXCEPT !.dispatched =
                  [i \in 1..Len(obs.dispatched) |->
                      [obs.dispatched[i] EXCEPT !.old_run = TRUE]]]

\* the state of the verifier, which the producer does not write
verifiervars == <<vars, logvars, httpvars, boot, policy_guards>>

ManagerNext ==
    \/ PollCall /\ UNCHANGED <<verifiervars, producer>>
    \/ RpcError /\ UNCHANGED <<verifiervars, producer>>
    \/ RpcReply /\ UNCHANGED <<verifiervars, producer>>
    \/ StreamRecv /\ UNCHANGED <<verifiervars, producer>>
    \/ Connect /\ UNCHANGED <<verifiervars, producer>>
    \/ SendAndReceive /\ UNCHANGED <<verifiervars, producer>>
    \/ StoreTemplate /\ UNCHANGED <<verifiervars, producer>>
    \/ MempoolSnapshot /\ UNCHANGED <<verifiervars, producer>>
    \/ BridgeConnect /\ UNCHANGED <<verifiervars, producer>>
    \/ BridgeSend /\ UNCHANGED <<verifiervars, producer>>
    \/ ReaderSend /\ UNCHANGED <<verifiervars, producer>>
    \/ BridgeClose /\ UNCHANGED <<verifiervars, producer>>
    \/ ManagerRestart /\ UNCHANGED <<verifiervars, producer>>

\* main() of template-manager with either backend; the verifier is the one
\* of SpecPolicyInit and takes no step
SpecManagerInit ==
    /\ Init /\ policy = LogPolicy /\ ~mempool_url /\ LogInit /\ HttpInit
    /\ BootDone
    /\ ManagerInit
    /\ producer = ProducerUp

SpecManager == SpecManagerInit /\ [][ManagerNext]_<<vars, rest>>

----------------------------------------------------------------------------
(* Properties of the producer *)

\* the two dispatches the observer holds are successive dispatches of one
\* run of the producer
SuccessiveDispatches ==
    /\ Len(obs.dispatched) = 2
    /\ ~obs.dispatched[1].old_run
    /\ ~obs.dispatched[2].old_run

\* C27: along any source stream, polling or streaming, two successive
\* dispatched templates never have equal fingerprints, also across a
\* reconnect to the bridge and across ticks on which the RPC failed.
C27_NoSuccessiveDuplicates ==
    SuccessiveDispatches => obs.dispatched[1].fp # obs.dispatched[2].fp

\* the orders in which a reply may list the transactions txs
Reorderings(txs) ==
    {q \in [1..Len(txs) -> {txs[i] : i \in 1..Len(txs)}] :
        \A i \in 1..Len(txs) : \E j \in 1..Len(txs) : q[j] = txs[i]}

\* C28: the wire id of a polled template is a function of its fingerprint
\* only: dispatched templates with equal fingerprints have equal ids, in
\* one run and across runs, and a reply that lists the same transactions
\* in another order has the same fingerprint and the same id.
C28_IdFromFingerprint ==
    source.backend = "bitcoind" =>
       /\ \A i, j \in 1..Len(obs.dispatched) :
            obs.dispatched[i].fp = obs.dispatched[j].fp
            => obs.dispatched[i].id = obs.dispatched[j].id
       /\ (manager.reply # None /\ manager.propose # None) =>
            LET tpl == unwrap(manager.reply) IN
            /\ unwrap(manager.propose).id
                  = stable_template_id(fingerprint(tpl))
            /\ \A q \in Reorderings(tpl.transactions) :
                 LET other == [tpl EXCEPT !.transactions = q] IN
                 /\ fingerprint(other) = fingerprint(tpl)
                 /\ polled_template(other).id = unwrap(manager.propose).id

\* witness of C28: a template of two transactions was dispatched, the
\* producer was restarted, and the new process dispatches a reply that
\* lists the two transactions in descending order under the same id
C28_Witness ==
    /\ source.backend = "bitcoind"
    /\ manager.pc = "connect"
    /\ manager.reply # None
    /\ unwrap(manager.reply).transactions
          = <<[txid |-> 2, fee |-> 2], [txid |-> 1, fee |-> 1]>>
    /\ Len(obs.dispatched) >= 1
    /\ obs.dispatched[Len(obs.dispatched)].old_run
    /\ obs.dispatched[Len(obs.dispatched)].fp
          = fingerprint(unwrap(manager.reply))
    /\ obs.dispatched[Len(obs.dispatched)].id = unwrap(manager.propose).id

\* the call in flight returns a block template in this step
Replied == manager.pc = "rpc" /\ manager'.reply # None

\* next_template gives up in this step
GivesUp ==
    manager.pc = "rpc" /\ manager'.pc = "mempool" /\ manager'.reply = None

\* C29: on one polling tick the block-template RPC is called at most 3
\* times; a reply yields that reply's template, or nothing when its
\* fingerprint is the last one; the third failure makes the tick yield
\* nothing and leaves the last fingerprint; the recovery message is logged
\* exactly on a tick that gets a reply after a tick that gave up, and
\* had_rpc_error is true iff the most recent completed tick gave up.
C29_RpcRetries ==
    [][/\ obs'.calls <= 3
       /\ Replied =>
            LET tpl == unwrap(manager'.reply) IN
            /\ IF source.last_fp = Some(fingerprint(tpl))
               THEN /\ manager'.propose = None
                    /\ source'.last_fp = source.last_fp
               ELSE /\ manager'.propose = Some(polled_template(tpl))
                    /\ source'.last_fp = Some(fingerprint(tpl))
            /\ obs'.recovered = obs.gave_up
       /\ GivesUp =>
            /\ obs.calls = 3
            /\ manager'.propose = None
            /\ source'.last_fp = source.last_fp
       /\ ~Replied => (obs'.recovered => obs.recovered)
       /\ source'.had_rpc_error = obs'.gave_up]_<<vars, rest>>

\* witness of C29: a tick gave up, and on the next tick the third call is
\* in flight after two failures
C29_Witness ==
    /\ manager.pc = "rpc"
    /\ obs.calls = 3
    /\ source.had_rpc_error
    /\ obs.gave_up

\* the steps left in the dispatch of a template: connect, exchange with
\* the verifier, store for /templates
StepsLeft(m) ==
    IF m.pc = "connect" THEN 3
    ELSE IF m.pc = "exchange" THEN 2
    ELSE IF m.pc = "log" THEN 1
    ELSE 0

\* the producer process is restarted in this step
Restarted ==
    /\ obs.dispatched # <<>>
    /\ ~obs.dispatched[Len(obs.dispatched)].old_run
    /\ obs'.dispatched # <<>>
    /\ obs'.dispatched[Len(obs'.dispatched)].old_run

\* C30: a failed dispatch never ends the manager loop.  The loop never
\* exits; while a dispatch is in progress the manager task can take a step
\* (every await of the dispatch is inside a timeout) and each of its steps,
\* whatever the outcome, leaves fewer steps of the dispatch to do and keeps
\* the template; the last one pushes the template to the template log and
\* goes on to the mempool snapshot and the next tick with the source as it
\* was.
C30_FailedDispatchGoesOn ==
    [][/\ manager'.pc # "exited"
       /\ StepsLeft(manager) > 0
          => ENABLED (Connect \/ SendAndReceive \/ StoreTemplate)
       /\ (StepsLeft(manager) > 0 /\ ~Restarted /\ manager' # manager)
          => StepsLeft(manager') < StepsLeft(manager)
       /\ (StepsLeft(manager) > 1 /\ ~Restarted /\ manager' # manager)
          => /\ StepsLeft(manager') > 0
             /\ manager'.propose = manager.propose
       /\ (manager.pc = "log" /\ ~Restarted /\ manager' # manager)
          => /\ manager'.pc \in {"mempool", "next"}
             /\ template_log' # <<>>
             /\ template_log'[Len(template_log')]
                   = LoggedTemplate(unwrap(manager.propose), source.backend)
             /\ source' = source]_<<vars, rest>>

\* witness of C30: in one run, a dispatch failed because the verifier
\* closed the connection without a verdict, and a template with another
\* fingerprint was dispatched after it
C30_Witness ==
    /\ SuccessiveDispatches
    /\ ~obs.dispatched[1].delivered
    /\ obs.dispatched[1].fp # obs.dispatched[2].fp
    /\ obs.dispatched[2].delivered
    /\ template_log # <<>>
    /\ template_log[Len(template_log)].id = obs.dispatched[2].id

\* C32: the streaming-source channel never holds more than MaxChannel
\* templates (16 in the program), and when it is full a template arriving
\* from the bridge is dropped rather than making the reader task wait: a
\* reader task that holds a parsed template can always take its next step
\* and go on reading the bridge connection.
C32_FullChannelDrops ==
    /\ Len(source.rx) <= MaxChannel
    /\ bridge.sending # None => ENABLED ReaderSend

\* the step is the mempool snapshot of a polling tick
SnapshotStep ==
    manager.pc = "mempool" /\ manager'.pc = "next" /\ ~Restarted

\* C35: with the polling backend, each tick on which the mempool RPC
\* succeeds (within at most 3 attempts) replaces the mempool slot with the
\* new snapshot, and a tick on which all 3 attempts fail leaves the
\* previously published snapshot unchanged; with the streaming backend the
\* slot is never written.  No other step of a run writes the slot.
C35_MempoolSlot ==
    [][/\ SnapshotStep =>
            LET calls == obs'.mempool_calls
                last == calls[Len(calls)]
            IN /\ source.backend = "bitcoind"
               /\ Len(calls) \in 1..3
               /\ \A k \in 1..(Len(calls) - 1) : calls[k] = None
               /\ last # None =>
                     mempool_log' = Some(MempoolStats(unwrap(last)))
               /\ last = None =>
                     /\ Len(calls) = 3
                     /\ mempool_log' = mempool_log
       /\ (~SnapshotStep /\ ~Restarted) => mempool_log' = mempool_log
       /\ source.backend = "stratum" =>
            /\ mempool_log = None
            /\ mempool_log' = None]_<<vars, rest>>

\* witness of C35: a tick replaced the published snapshot by a new one
\* after two failed calls, and on the next tick all three calls failed and
\* the slot still holds that snapshot
C35_Witness ==
    /\ manager.pc = "next"
    /\ obs.mempool_calls = <<None, None, None>>
    /\ manager.mempool_had_rpc_error
    /\ mempool_log = Some(MempoolStats([size |-> 2]))

\* heights at both ends of every halving period up to the 66th, and the
\* largest height the model can write
SubsidyHeights ==
    {k * 210000 + d : k \in 0..66, d \in {0, 209999}} \cup {2147483647}

\* 5,000,000,000 >> k, the quotient of 5,000,000,000 by 2^k: from two
\* halvings on it is the quotient of 1,250,000,000 by 2^(k-2), which is 0
\* once 2^(k-2) exceeds 1,250,000,000 < 2^31
FiftyCoinsShifted(k) ==
    IF k = 0 THEN [hi |-> 76293, lo |-> 61952]
    ELSE IF k = 1 THEN [hi |-> 38146, lo |-> 63744]
    ELSE IF k - 2 >= 31 THEN sats(0)
    ELSE sats(1250000000 \div (2 ^ (k - 2)))

\* block_subsidy_sats on SubsidyHeights is 5,000,000,000 >> (h / 210000)
\* below 64 halvings and 0 from 64 on; it is 1 at 32 halvings and 0 from
\* 33 on; it is non-increasing in h
SubsidySchedule ==
    /\ \A h \in SubsidyHeights :
         LET halvings == h \div 210000 IN
         /\ block_subsidy_sats(h) =
               IF halvings >= 64 THEN sats(0) ELSE FiftyCoinsShifted(halvings)
         /\ halvings >= 33 => block_subsidy_sats(h) = sats(0)
         /\ halvings = 32 => block_subsidy_sats(h) = sats(1)
    /\ \A h1, h2 \in SubsidyHeights :
         h1 <= h2 => le_sats(block_subsidy_sats(h2), block_subsidy_sats(h1))

\* C36: on the polling path the emitted coinbase_value equals the RPC's
\* coinbase value when that is non-zero and block_subsidy(height) +
\* total_fees when it is zero, where block_subsidy(h) = 5,000,000,000 >>
\* (h / 210000) and is 0 from 64 halvings on (and already 0 from 33
\* halvings on); block_subsidy is non-increasing in h.
C36_CoinbaseFallback ==
    /\ (manager.reply # None /\ manager.propose # None) =>
          LET tpl == unwrap(manager.reply)
              fees == sum_fees(tpl.transactions)
              halvings == tpl.height \div 210000
          IN unwrap(manager.propose).coinbase_value =
                IF tpl.coinbase_value # 0 THEN sats(tpl.coinbase_value)
                ELSE add_sats(FiftyCoinsShifted(halvings), sats(fees))
    /\ SubsidySchedule

\* witness of C36: the node reported a coinbase value of 0 at height 1 with
\* 3 sats of fees, and the template being dispatched carries 5,000,000,003
C36_Witness ==
    /\ manager.pc = "connect"
    /\ manager.reply # None
    /\ unwrap(manager.reply).coinbase_value = 0
    /\ unwrap(manager.reply).height = 1
    /\ unwrap(manager.propose).coinbase_value = [hi |-> 76293, lo |-> 61955]

\* the last dispatch of this run, when it got no verdict
LastDispatchFailed ==
    /\ obs.dispatched # <<>>
    /\ ~obs.dispatched[Len(obs.dispatched)].old_run
    /\ ~obs.dispatched[Len(obs.dispatched)].delivered

\* C39: with the polling source, a novel template whose dispatch to the
\* verifier failed is offered again on a later tick while the node keeps
\* returning the same template: the last fingerprint is only advanced for
\* templates that were delivered.
C39_FailedDispatchOfferedAgain ==
    [][(/\ source.backend = "bitcoind"
        /\ LastDispatchFailed
        /\ Replied
        /\ fingerprint(unwrap(manager'.reply))
              = obs.dispatched[Len(obs.dispatched)].fp)
       => manager'.propose = Some(polled_template(unwrap(manager'.reply)))
      ]_<<vars, rest>>

----------------------------------------------------------------------------
(* template-manager: main(), the HTTP task and the manager task *)

\* results of TcpListener::bind(&http_addr): the listener, or an error
\* such as "address already in use"
BindResults == {"bound", "in_use"}

\* main() returning Err(e): the process exits with a failure status
Failure(context) == [ok |-> FALSE, context |-> context]

\* main() that goes on to the template source whatever bind returned
bind_listener_unchecked(p, result) ==
    [p EXCEPT !.pc = "source", !.listener = result]

\* TcpListener::bind(&http_addr).await.with_context(..)?
bind_listener(p, result) ==
    IF result = "bound"
    THEN [p EXCEPT !.pc = "source", !.listener = "bound"]
    ELSE [p EXCEPT !.pc = "exited", !.listener = result,
                   !.exit = Some(Failure("failed to bind manager HTTP"))]

\* the single-instance lock: bind the HTTP listener
BindListener ==
    /\ producer.pc = "bind"
    /\ \E result \in BindResults : producer' = bind_listener(producer, result)
    /\ UNCHANGED mgrvars

\* results of the match on cfg.backend: the polling source with its RPC
\* client, an error of build_bitcoind_client, or the streaming source,
\* whose from_config spawns the reader task
BuildResults(backend) ==
    IF backend = "bitcoind" THEN {"client", "client_error"} ELSE {"reader"}

\* choose backend, build the source, create the two logs and the router
BuildSource ==
    /\ producer.pc = "source"
    /\ \E result \in BuildResults(source.backend) :
         producer' =
            IF result = "client_error"
            THEN [producer EXCEPT
                     !.pc = "exited",
                     !.exit = Some(Failure(
                                 "failed to create bitcoind RPC client"))]
            ELSE [producer EXCEPT !.pc = "spawn"]
    /\ UNCHANGED mgrvars

\* tokio::spawn of axum::serve and of run_manager_loop; main() waits in
\* its select!
SpawnTasks ==
    /\ producer.pc = "spawn"
    /\ producer' = [producer EXCEPT !.pc = "select",
                                    !.http_task = "running",
                                    !.manager_task = "running"]
    /\ UNCHANGED mgrvars

\* how a spawned task can end: its future returns Ok(()), returns Err, or
\* panics (the JoinHandle then yields a JoinError)
TaskEnds == {"returned", "failed", "panicked"}

\* axum::serve(listener, app) ends
HttpTaskEnds ==
    /\ producer.pc = "select"
    /\ producer.http_task = "running"
    /\ \E how \in TaskEnds : producer' = [producer EXCEPT !.http_task = how]
    /\ UNCHANGED mgrvars

\* run_manager_loop has no return and no ?: the task ends by a panic only
ManagerTaskEnds ==
    /\ producer.pc = "select"
    /\ producer.manager_task = "running"
    /\ producer' = [producer EXCEPT !.manager_task = "panicked"]
    /\ UNCHANGED mgrvars

\* a select! that polls the HTTP task only
ready_arms_http_only(p) ==
    IF p.http_task \in TaskEnds THEN {"http"} ELSE {}

\* the arms of the select! whose JoinHandle is ready
ready_arms(p) ==
    (IF p.http_task \in TaskEnds THEN {"http"} ELSE {})
       \cup (IF p.manager_task \in TaskEnds THEN {"manager"} ELSE {})

\* the body of an arm: every path through it returns an error
select_arm(arm, how) ==
    IF arm = "http"
    THEN IF how = "panicked" THEN Failure("HTTP task join failed")
         ELSE Failure("HTTP server exited")
    ELSE IF how = "panicked" THEN Failure("manager task join failed")
         ELSE IF how = "failed" THEN Failure("manager loop error")
         ELSE Failure("manager loop exited")

\* a task main() leaves behind when it returns: the runtime is dropped and
\* the task with it
dropped(task) == IF task = "running" THEN "dropped" ELSE task

\* the select! takes a ready arm, main() returns its error
Select ==
    /\ producer.pc = "select"
    /\ \E arm \in ready_arms(producer) :
         producer' =
            [pc |-> "exited",
             listener |-> producer.listener,
             http_task |-> dropped(producer.http_task),
             manager_task |-> dropped(producer.manager_task),
             exit |-> Some(select_arm(arm,
                             IF arm = "http" THEN producer.http_task
                             ELSE producer.manager_task))]
    /\ UNCHANGED mgrvars

\* a step of run_manager_loop while its task runs
ManagerTask ==
    /\ producer.pc = "select"
    /\ producer.manager_task = "running"
    /\ \/ PollCall \/ RpcError \/ RpcReply \/ StreamRecv \/ Connect
       \/ SendAndReceive \/ StoreTemplate \/ MempoolSnapshot
    /\ UNCHANGED producer

\* a step of the reader task of the streaming source, which from_config
\* spawned, or of the bridge it is connected to
ReaderTask ==
    /\ producer.pc \in {"spawn", "select"}
    /\ BridgeConnect \/ BridgeSend \/ ReaderSend \/ BridgeClose
    /\ UNCHANGED producer

ProducerNext ==
    \/ BindListener /\ UNCHANGED verifiervars
    \/ BuildSource /\ UNCHANGED verifiervars
    \/ SpawnTasks /\ UNCHANGED verifiervars
    \/ HttpTaskEnds /\ UNCHANGED verifiervars
    \/ ManagerTaskEnds /\ UNCHANGED verifiervars
    \/ Select /\ UNCHANGED verifiervars
    \/ ManagerTask /\ UNCHANGED verifiervars
    \/ ReaderTask /\ UNCHANGED verifiervars

\* main() of template-manager before the bind, configuration loaded
ProducerStart ==
    [pc |-> "bind", listener |-> "none", http_task |-> "none",
     manager_task |-> "none", exit |-> None]

SpecProducerInit ==
    /\ Init /\ policy = LogPolicy /\ ~mempool_url /\ LogInit /\ HttpInit
    /\ BootDone
    /\ ManagerInit
    /\ producer = ProducerStart

SpecProducer == SpecProducerInit /\ [][ProducerNext]_<<vars, rest>>

\* the select! is polled again when a JoinHandle becomes ready
SpecProducerLive ==
    SpecProducer /\ WF_<<vars, rest>>(Select /\ UNCHANGED verifiervars)

----------------------------------------------------------------------------
(* Properties of main() of the producer *)

\* one of the two tasks has ended
TaskEnded ==
    producer.http_task \in TaskEnds \/ producer.manager_task \in TaskEnds

\* the process has terminated with an error
ExitedWithError ==
    /\ producer.pc = "exited"
    /\ producer.exit # None
    /\ ~unwrap(producer.exit).ok

\* C31: in the producer, if either the HTTP server task or the manager-loop
\* task ends (returns, errors or panics), the process terminates with an
\* error: a task that has ended leads to the exit of main() with an error,
\* a process that has exited left no task running and takes no step, and
\* main() never returns while both tasks run.
C31_TaskEndStopsProcess ==
    /\ TaskEnded ~> ExitedWithError
    /\ [](producer.pc = "exited" =>
            /\ ExitedWithError
            /\ producer.http_task # "running"
            /\ producer.manager_task # "running")
    /\ [][/\ producer.pc # "exited"
          /\ (producer.pc = "select" /\ producer'.pc = "exited")
                => TaskEnded]_<<vars, rest>>

\* witness of C31: the manager task panicked after it had dispatched a
\* template, main() returned the join error and the HTTP task was dropped
C31_Witness ==
    /\ ExitedWithError
    /\ unwrap(producer.exit).context = "manager task join failed"
    /\ producer.manager_task = "panicked"
    /\ producer.http_task = "dropped"
    /\ obs.dispatched # <<>>

\* the producer has built no source, run no task and fetched or
\* dispatched nothing
NothingStarted ==
    /\ producer.http_task = "none"
    /\ producer.manager_task = "none"
    /\ source = NewSource(source.backend)
    /\ manager = NewManager
    /\ template_log = <<>>
    /\ mempool_log = None
    /\ bridge = BridgeDown
    /\ obs = NewObs

\* C33: the producer binds its HTTP listener before it builds the template
\* source and starts the manager loop; when the bind fails (address
\* already in use) startup aborts with an error and no template is ever
\* fetched or dispatched by that process.
C33_BindBeforeSource ==
    /\ producer.listener # "bound" =>
          /\ producer.pc \in {"bind", "exited"}
          /\ NothingStarted
    /\ producer.listener = "in_use" => ExitedWithError
    /\ producer.pc \in {"spawn", "select"} => producer.listener = "bound"

\* witness of C33: the address was in use and main() has returned the
\* error of the bind
C33_Witness ==
    /\ producer.listener = "in_use"
    /\ producer.pc = "exited"
    /\ unwrap(producer.exit).context = "failed to bind manager HTTP"

----------------------------------------------------------------------------
(* The verifier's mempool fetch against GET /mempool of the producer *)

\* get_mempool: the published snapshot, or a snapshot of zeros loaded from
\* "unknown" while the slot is empty (timestamp and sizes left out)
get_mempool(slot) ==
    IF slot = None THEN [loaded_from |-> "unknown", tx_count |-> 0]
    ELSE unwrap(slot)

\* what client().get(url).send() can bring back from the producer: no
\* response (connection error, the 900 ms timeout), a response with a
\* non-success status, or the JSON body of get_mempool
MempoolResponses(slot) ==
    {[status |-> "none", body |-> None],
     [status |-> "failure", body |-> None],
     [status |-> "success", body |-> Some(get_mempool(slot))]}

\* fetch_mempool_tx_count: None without a successful response or a body
\* that parses, else Some of the body's tx_count
fetch_mempool_tx_count(resp) ==
    IF resp.status # "success" THEN None
    ELSE IF resp.body = None THEN None
    ELSE Some(unwrap(resp.body).tx_count)

\* the fetch of the verdict path answered by the producer, then the
\* decision
MempoolFetch ==
    /\ pc = "fetch"
    /\ \E resp \in MempoolResponses(mempool_log) :
         /\ UNCHANGED propose
         /\ Decide(fetch_mempool_tx_count(resp))
    /\ UNCHANGED <<policy, mempool_url>>

\* a connection task of the verifier whose mempool URL is the producer's
\* /mempool, and the manager loop of the producer
FetchNext ==
    \/ Accept /\ UNCHANGED rest
    \/ Eof /\ UNCHANGED rest
    \/ ParseError /\ UNCHANGED rest
    \/ ReadLineFetch /\ propose' \in {Some(p) : p \in SwapTemplates}
                     /\ UNCHANGED rest
    \/ MempoolFetch /\ UNCHANGED rest
    \/ WriteVerdict /\ UNCHANGED rest
    \/ WriteError /\ UNCHANGED rest
    \/ PollCall /\ UNCHANGED <<verifiervars, producer>>
    \/ RpcError /\ UNCHANGED <<verifiervars, producer>>
    \/ RpcReply /\ UNCHANGED <<verifiervars, producer>>
    \/ Connect /\ UNCHANGED <<verifiervars, producer>>
    \/ SendAndReceive /\ UNCHANGED <<verifiervars, producer>>
    \/ StoreTemplate /\ UNCHANGED <<verifiervars, producer>>
    \/ MempoolSnapshot /\ UNCHANGED <<verifiervars, producer>>

\* the verifier with LogPolicy and the mempool URL set, the producer with
\* either backend at the top of its loop
SpecFetchInit ==
    /\ Init /\ policy = LogPolicy /\ mempool_url /\ LogInit /\ HttpInit
    /\ BootDone
    /\ ManagerInit
    /\ producer = ProducerUp

SpecFetch == SpecFetchInit /\ [][FetchNext]_<<vars, rest>>

\* C40: while the producer has not yet published any mempool snapshot
\* (start of a polling run, or any time with the streaming backend), a
\* verdict computed by the verifier with the mempool URL configured treats
\* the mempool count as unknown rather than as a known count of 0.
C40_NoSnapshotIsUnknown ==
    [][(pc = "fetch" /\ pc' = "write" /\ mempool_log = None)
       => mempool_tx_count' = None]_<<vars, rest>>

----------------------------------------------------------------------------
(* The RwLock around the policy record: who holds a guard, and where *)

\* the connection task of run_tcp_server and the task of an HTTP handler
ConnTask == <<"conn", 0>>
HttpTask(h) == <<"http", h>>

\* RwLock::read returns once no writer holds the lock, RwLock::write once
\* nobody holds it
can_read(guards) == \A g \in guards : g.kind # "write"
can_write(guards) == guards = {}

\* the guard returned by read() and by write()
read_guard(guards, task) == guards \cup {[task |-> task, kind |-> "read"]}
write_guard(guards, task) == guards \cup {[task |-> task, kind |-> "write"]}

\* a block that ends with its guard still alive
drop_guard_leaked(guards, task) == guards

\* the end of the block the guard was bound in: the guard is dropped
drop_guard(guards, task) == {g \in guards : g.task # task}

\* the requests of the runs below: a patch that validates and one that
\* does not, a body that is rejected and one that is committed
LockRequests ==
    {[EmptyReq EXCEPT !.min_total_fees = Some(2)],
     [EmptyReq EXCEPT !.low_mempool_tx = Some(3)]}

LockBodies ==
    {NotUtf8,
     Text(Some([LogPolicy EXCEPT !.reject_empty_templates = TRUE]))}

\* a well-formed line: on to the mempool fetch if a URL is configured, else
\* straight to the policy snapshot
LockReadLine ==
    /\ pc = "read"
    /\ \E p \in SwapTemplates : propose' = Some(p)
    /\ pc' = IF mempool_url THEN "fetch" ELSE "snapshot"
    /\ UNCHANGED <<policy, mempool_url, mempool_tx_count, cfg, verdict>>
    /\ UNCHANGED policy_guards

\* fetch_mempool_tx_count(url).await returns
LockMempoolReply ==
    /\ pc = "fetch"
    /\ \E m \in {None} \cup {Some(n) : n \in 0..MaxMempool} :
         mempool_tx_count' = m
    /\ pc' = "snapshot"
    /\ UNCHANGED <<policy, mempool_url, propose, cfg, verdict>>
    /\ UNCHANGED policy_guards

\* let holder = state_clone.policy.read().unwrap();
SnapshotLock ==
    /\ pc = "snapshot"
    /\ can_read(policy_guards)
    /\ policy_guards' = read_guard(policy_guards, ConnTask)
    /\ pc' = "locked"
    /\ UNCHANGED <<policy, mempool_url, propose, mempool_tx_count, cfg, verdict>>

\* holder.config.clone() and the end of the block, then the evaluation and
\* the push to the ring, up to append_verdict_to_disk
SnapshotClone ==
    /\ pc = "locked"
    /\ cfg' = Some(policy)
    /\ verdict' = Some(decide(policy, unwrap(propose), mempool_tx_count))
    /\ policy_guards' = drop_guard(policy_guards, ConnTask)
    /\ pc' = "append"
    /\ UNCHANGED <<policy, mempool_url, propose, mempool_tx_count>>

\* append_verdict_to_disk returns (the lines it writes are those of
\* ConnDisk), next the socket write
AppendVerdict ==
    /\ pc = "append"
    /\ pc' = "write"
    /\ UNCHANGED <<policy, mempool_url, propose, mempool_tx_count, cfg, verdict>>
    /\ UNCHANGED policy_guards

\* apply_policy: let holder = app_state.policy.read().unwrap();
ApplyReadLock(h) ==
    /\ http[h].pc = "idle"
    /\ can_read(policy_guards)
    /\ \E req \in LockRequests :
         http' = [http EXCEPT ![h] =
                    [IdleHandler EXCEPT !.pc = "read_lock", !.route = "apply",
                                        !.req = Some(req)]]
    /\ policy_guards' = read_guard(policy_guards, HttpTask(h))
    /\ UNCHANGED <<policy, toml_text, start>>

\* apply_policy: holder.config.clone() and the end of the first block
ApplyReadClone(h) ==
    /\ http[h].pc = "read_lock"
    /\ http' = [http EXCEPT ![h].pc = "read", ![h].base_cfg = Some(policy)]
    /\ policy_guards' = drop_guard(policy_guards, HttpTask(h))
    /\ UNCHANGED <<policy, toml_text, start>>

\* apply_policy: the composed config fails validate, 400 with no lock taken
ApplyReject(h) ==
    /\ http[h].pc = "read"
    /\ LET r == apply_policy(Holder, unwrap(http[h].base_cfg),
                             unwrap(http[h].req))
       IN /\ r.status # 200
          /\ http' = [http EXCEPT ![h].pc = "done",
                                  ![h].status = Some(r.status)]
    /\ UNCHANGED <<policy, toml_text, start, policy_guards>>

\* apply_policy: let mut holder = app_state.policy.write().unwrap();
ApplyWriteLock(h) ==
    /\ http[h].pc = "read"
    /\ apply_policy(Holder, unwrap(http[h].base_cfg),
                    unwrap(http[h].req)).status = 200
    /\ can_write(policy_guards)
    /\ http' = [http EXCEPT ![h].pc = "commit"]
    /\ policy_guards' = write_guard(policy_guards, HttpTask(h))
    /\ UNCHANGED <<policy, toml_text, start>>

\* apply_policy: the two assignments and the end of the commit block
ApplyWriteCommit(h) ==
    /\ http[h].pc = "commit"
    /\ http[h].route = "apply"
    /\ LET r == apply_policy(Holder, unwrap(http[h].base_cfg),
                             unwrap(http[h].req))
       IN /\ policy' = r.holder.config
          /\ toml_text' = r.holder.toml_text
          /\ http' = [http EXCEPT ![h].pc = "done",
                                  ![h].status = Some(r.status)]
    /\ policy_guards' = drop_guard(policy_guards, HttpTask(h))
    /\ UNCHANGED start

\* apply_policy_toml: a body that is not UTF-8, does not parse or does not
\* validate, 400 with no lock taken
TomlReject(h) ==
    /\ http[h].pc = "idle"
    /\ \E body \in LockBodies :
         LET r == apply_policy_toml(Holder, body)
         IN /\ r.status # 200
            /\ http' = [http EXCEPT ![h] =
                           [IdleHandler EXCEPT !.pc = "done",
                                               !.route = "apply_toml",
                                               !.body = Some(body),
                                               !.status = Some(r.status)]]
    /\ UNCHANGED <<policy, toml_text, start, policy_guards>>

\* apply_policy_toml: app_state.policy.write(), poisoned or not
TomlWriteLock(h) ==
    /\ http[h].pc = "idle"
    /\ can_write(policy_guards)
    /\ \E body \in LockBodies :
         /\ apply_policy_toml(Holder, body).status = 200
         /\ http' = [http EXCEPT ![h] =
                        [IdleHandler EXCEPT !.pc = "commit",
                                            !.route = "apply_toml",
                                            !.body = Some(body)]]
    /\ policy_guards' = write_guard(policy_guards, HttpTask(h))
    /\ UNCHANGED <<policy, toml_text, start>>

\* apply_policy_toml: the two assignments and the end of the block
TomlWriteCommit(h) ==
    /\ http[h].pc = "commit"
    /\ http[h].route = "apply_toml"
    /\ LET r == apply_policy_toml(Holder, unwrap(http[h].body))
       IN /\ policy' = r.holder.config
          /\ toml_text' = r.holder.toml_text
          /\ http' = [http EXCEPT ![h].pc = "done",
                                  ![h].status = Some(r.status)]
    /\ policy_guards' = drop_guard(policy_guards, HttpTask(h))
    /\ UNCHANGED start

\* get_policy: let holder = app_state.policy.read().unwrap();
GetPolicyLock(h) ==
    /\ http[h].pc = "idle"
    /\ can_read(policy_guards)
    /\ http' = [http EXCEPT ![h] =
                  [IdleHandler EXCEPT !.pc = "get", !.route = "get"]]
    /\ policy_guards' = read_guard(policy_guards, HttpTask(h))
    /\ UNCHANGED <<policy, toml_text, start>>

\* get_policy: the body is built from holder.config and returned, holder
\* goes out of scope
GetPolicyReturn(h) ==
    /\ http[h].pc = "get"
    /\ http' = [http EXCEPT ![h].pc = "done", ![h].status = Some(200)]
    /\ policy_guards' = drop_guard(policy_guards, HttpTask(h))
    /\ UNCHANGED <<policy, toml_text, start>>

\* the response is written, the task serves the next request
HandlerReturn(h) ==
    /\ http[h].pc = "done"
    /\ http' = [http EXCEPT ![h] = IdleHandler]
    /\ UNCHANGED <<policy, toml_text, start, policy_guards>>

\* what a step of the connection task and a step of a handler leave alone
\* besides the lock
connrest == <<logvars, httpvars, boot, mgrvars, producer>>
handlerrest == <<connvars, logvars, boot, mgrvars, producer>>

\* the connection task and the handlers on the multi-thread runtime, each
\* call of read() and write() and each end of a block a step of its own
LockNext ==
    \/ Accept /\ UNCHANGED rest
    \/ Eof /\ UNCHANGED rest
    \/ ParseError /\ UNCHANGED rest
    \/ LockReadLine /\ UNCHANGED connrest
    \/ LockMempoolReply /\ UNCHANGED connrest
    \/ SnapshotLock /\ UNCHANGED connrest
    \/ SnapshotClone /\ UNCHANGED connrest
    \/ AppendVerdict /\ UNCHANGED connrest
    \/ WriteVerdict /\ UNCHANGED rest
    \/ WriteError /\ UNCHANGED rest
    \/ \E h \in Handlers : ApplyReadLock(h) /\ UNCHANGED handlerrest
    \/ \E h \in Handlers : ApplyReadClone(h) /\ UNCHANGED handlerrest
    \/ \E h \in Handlers : ApplyReject(h) /\ UNCHANGED handlerrest
    \/ \E h \in Handlers : ApplyWriteLock(h) /\ UNCHANGED handlerrest
    \/ \E h \in Handlers : ApplyWriteCommit(h) /\ UNCHANGED handlerrest
    \/ \E h \in Handlers : TomlReject(h) /\ UNCHANGED handlerrest
    \/ \E h \in Handlers : TomlWriteLock(h) /\ UNCHANGED handlerrest
    \/ \E h \in Handlers : TomlWriteCommit(h) /\ UNCHANGED handlerrest
    \/ \E h \in Handlers : GetPolicyLock(h) /\ UNCHANGED handlerrest
    \/ \E h \in Handlers : GetPolicyReturn(h) /\ UNCHANGED handlerrest
    \/ \E h \in Handlers : HandlerReturn(h) /\ UNCHANGED handlerrest

\* main() with LogPolicy as the policy file, the mempool URL set or not
SpecLockInit == Init /\ policy = LogPolicy /\ LogInit /\ HttpInit /\ OuterInit

SpecLock == SpecLockInit /\ [][LockNext]_<<vars, rest>>

\* the positions at which a task waits on I/O: accept, read_line, the
\* mempool fetch, the disk append and the socket write of the connection
\* task; the request and the response of a handler
AtIo(task) ==
    IF task = ConnTask
    THEN pc \in {"accept", "read", "fetch", "append", "write"}
    ELSE http[task[2]].pc \in {"idle", "done"}

\* C37: no task holds a guard of the policy lock, read or write, while it
\* waits on I/O: the connection task holds none during the mempool fetch,
\* the disk append and the socket write, and a write guard is only ever
\* held by a hot-swap handler that is about to replace the record in
\* memory.
C37_NoGuardAcrossIo ==
    /\ \A g \in policy_guards : ~AtIo(g.task)
    /\ \A g \in policy_guards :
         g.kind = "write" => /\ g.task # ConnTask
                             /\ http[g.task[2]].pc = "commit"

\* witness of C37: the verdict of a snapshot waits in the socket write
\* while a handler holds the write guard
C37_Witness ==
    /\ pc = "write"
    /\ cfg # None
    /\ \E h \in Handlers :
         /\ http[h].pc = "commit"
         /\ [task |-> HttpTask(h), kind |-> "write"] \in policy_guards

====
